---- MODULE Spec2Model ----
(***************************************************************************)
(* State-machine model of steamsale_bot: the daily check-apps loop         *)
(* (src/events/serenity_ready.rs), the three MongoDB collections it works  *)
(* on (src/repos/*.rs) and the gateway handlers and commands that feed     *)
(* them.                                                                   *)
(*                                                                         *)
(* Option<T> values are sequences: <<>> is None and <<x>> is Some(x).      *)
(* A Result is a record: [kind |-> "Ok", val |-> Option<App>] or           *)
(* [kind |-> "Err", rate_limited |-> BOOLEAN]; a steam::FetchError is      *)
(* represented by the value FetchError::is_rate_limited() returns on it.   *)
(***************************************************************************)
EXTENDS Integers, Sequences, FiniteSets, TLC

\* ---------------------------------------------------------------- bounds
MaxApps == 2
MaxGuilds == 1
MaxReady == 2
MaxIds == 2
MaxLinks == 1
MaxDays == 3
MaxSessions == 2
MaxRepoGuilds == 2
MaxRepoIds == 2

AppIds == 1..MaxApps
Guilds == 1..MaxGuilds
Tasks == 1..MaxReady

\* ------------------------------------------------------ program constants
MAX_TRIES == 5
DEFAULT_SALE_THRESHOLD == 1
\* `.and_hms_opt(17, 0, 0)` and `chrono::Duration::days(1)`, in hours
HOUR == 17
HoursPerDay == 24

\* --------------------------------------------------------- input domains
\* channel ids a guild can be bound to: 0 is what guild_create stores when
\* no usable default text channel exists.
ChannelIds == {0, 100}
\* discount_percent values of a price_overview
Discounts == {0, 10}
\* the threshold argument of /add_apps
ThresholdArgs == {<<>>, <<10>>}

\* steam::App, reduced to the fields the loop reads
PriceOverviews == {<<>>} \cup {<<d>> : d \in Discounts}
\* (a free app carries no price_overview)
SteamApps ==
    {a \in [coming_soon : BOOLEAN, is_free : BOOLEAN,
            price_overview : PriceOverviews] :
        a.is_free => a.price_overview = <<>>}

OkRes(v) == [kind |-> "Ok", val |-> v]
ErrRes(rl) == [kind |-> "Err", rate_limited |-> rl]
\* the result is Ok(Some(app))
Found(r) == r.kind = "Ok" /\ r.val # <<>>

\* every result Client::app_details can produce
FetchResults ==
    {OkRes(<<>>)} \cup {OkRes(<<a>>) : a \in SteamApps}
        \cup {ErrRes(rl) : rl \in BOOLEAN}

VARIABLES
    discord,      \* discord collection: set of models::Discord
    junction,     \* junction collection: set of models::Junction
    apps,         \* apps collection: set of app_id
    nextId,       \* next _id the store assigns to an inserted junction
    readyCount,   \* number of Ready events handled so far
    readyLeft,    \* number of Ready events the gateway will still deliver
    pc,           \* per loop task: position in init_check_apps / check_apps
    ids,          \* per loop task: app ids of the for loop not yet visited
    orphans,      \* per loop task: ids collected by remove_orphans
    cur,          \* per loop task: app_id of the current iteration
    app_res,      \* per loop task: get_app's app_res
    tries,        \* per loop task: get_app's tries
    futs,         \* per loop task: the futures of for_each_concurrent
    cache,        \* per loop task: discord_cache of the running sweep
    result,       \* per loop task: what the last check_apps returned
    obs,          \* observation: get_app's calls, sleeps, answers, warning
    hist,         \* observation: per (app, guild), what earlier sweeps did
    now,          \* the wall clock, in hours since midnight of day 0
    sched,        \* the scheduler loop seen against the clock
    sess,         \* per client session: the command or handler it runs
    done,         \* observation: the last repository call that returned
    app_names     \* apps collection: app_name of the row of each app_id

vars == <<discord, junction, apps, nextId, readyCount, readyLeft, pc, ids,
          orphans, cur, app_res, tries, futs, cache, result, obs, hist,
          now, sched, sess, done, app_names>>

dbVars == <<discord, junction, apps, nextId>>
loopVars == <<pc, ids, orphans, cur, app_res, tries, futs, cache, result>>
auxVars == <<now, sched, sess, done, app_names>>
progVars == <<readyCount, readyLeft, loopVars, obs, hist>>

\* ------------------------------------------------------------- helpers
Links == AppIds \X Guilds

NoObs == [calls |-> 0, sleeps |-> 0, rl |-> 0, warned |-> FALSE,
          last |-> OkRes(<<>>)]
NoHist == [prev |-> "none", rel |-> 0]

\* Option::unwrap_or
UnwrapOr(opt, dflt) == IF opt = <<>> THEN dflt ELSE opt[1]

\* models::Junction built by add_apps_to_db
NewJunction(id, app_id, guild_id, app, threshold) ==
    [id |-> id, app_id |-> app_id, server_id |-> guild_id,
     is_trailing_sale_day |-> FALSE, coming_soon |-> app.coming_soon,
     sale_threshold |-> threshold]

\* models::Discord built by add_guild_if_not_exists
NewDiscord(guild_id, channel_id) ==
    [server_id |-> guild_id, channel_id |-> channel_id,
     sale_threshold |-> DEFAULT_SALE_THRESHOLD]

\* the scheduler before its first checking_time(): where the loop stands
\* (pc), when checking_time was called (at) and what it returned (deadline),
\* when the running sweep started (start), the days the last two sweeps
\* started on (lastDay, prevDay), when the last sweep returned and whether
\* it took more than a day (returned, long)
NoSched == [pc |-> "compute", at |-> 0, deadline |-> 0, start |-> -1,
            lastDay |-> -1, prevDay |-> -1, returned |-> -1, long |-> FALSE]

\* a client session with no command or handler running on it
NoTx == [op |-> "none"]

\* no repository call has returned yet
NoDone == [op |-> "none"]

Sessions == 1..MaxSessions

\* app_name values of models::App
Names == {"name", "renamed"}

\* the name steam::App carries for each app, which upsert_app stores
CatalogNames == [a \in AppIds |-> "name"]

\* ------------------------------------------------------------------ Init
\* A freshly started process over an empty database.
InitWith(nReady) ==
    /\ now = 0
    /\ sched = NoSched
    /\ sess = [s \in Sessions |-> NoTx]
    /\ done = NoDone
    /\ app_names = CatalogNames
    /\ discord = {}
    /\ junction = {}
    /\ apps = {}
    /\ nextId = 1
    /\ readyCount = 0
    /\ readyLeft = nReady
    /\ pc = [t \in Tasks |-> "unborn"]
    /\ ids = [t \in Tasks |-> {}]
    /\ orphans = [t \in Tasks |-> {}]
    /\ cur = [t \in Tasks |-> 0]
    /\ app_res = [t \in Tasks |-> OkRes(<<>>)]
    /\ tries = [t \in Tasks |-> 0]
    /\ futs = [t \in Tasks |-> {}]
    /\ cache = [t \in Tasks |-> {}]
    /\ result = [t \in Tasks |-> "none"]
    /\ obs = [t \in Tasks |-> NoObs]
    /\ hist = [l \in Links |-> NoHist]

\* ------------------------------------------------- gateway event handlers
\* SerenityReady::ready: init_data, then init_check_apps spawns one more
\* loop task. Nothing keeps a second Ready from spawning a second loop.
Ready ==
    /\ readyLeft > 0
    /\ readyCount < MaxReady
    /\ readyLeft' = readyLeft - 1
    /\ readyCount' = readyCount + 1
    /\ pc' = [pc EXCEPT ![readyCount + 1] = "sleep"]
    /\ UNCHANGED <<dbVars, ids, orphans, cur, app_res, tries, futs, cache,
                   result, obs, hist, auxVars>>

\* add_guild_if_not_exists with a slip: `$set` for `$setOnInsert`
add_guild_Overwrite(coll, guild_id, channel_id) ==
    {d \in coll : d.server_id # guild_id}
        \cup {NewDiscord(guild_id, channel_id)}

\* DiscordRepo::add_guild_if_not_exists: upsert with $setOnInsert
add_guild_if_not_exists(coll, guild_id, channel_id) ==
    IF \E d \in coll : d.server_id = guild_id
    THEN coll
    ELSE coll \cup {NewDiscord(guild_id, channel_id)}

\* GuildAvailable::guild_create. poise_data_unwrap panics before the first
\* Ready, so the handler acts only afterwards; a failed write is logged.
GuildCreate(g, ch) ==
    /\ readyCount > 0
    /\ \/ discord' = add_guild_if_not_exists(discord, g, ch)
       \/ discord' = discord
    /\ UNCHANGED <<junction, apps, nextId, readyCount, readyLeft, auxVars, loopVars,
                   obs, hist>>

\* add_junction_if_not_exists with a slip: it inserts without the match
add_junction_Always(coll, j) == coll \cup {j}

\* JunctionRepo::add_junction_if_not_exists: upsert with $setOnInsert
add_junction_if_not_exists(coll, j) ==
    IF \E x \in coll : x.app_id = j.app_id /\ x.server_id = j.server_id
    THEN coll
    ELSE coll \cup {j}

\* Addable with a slip: fetch_apps keeps every app it is given
Addable_Always(app) == TRUE

\* fetch_apps keeps an app unless it is free and already released
Addable(app) == ~app.is_free \/ app.coming_soon

\* /add_apps for one app id, committed: fetch_apps, then one iteration of
\* add_apps_to_db (junction insert-if-absent and apps upsert in one
\* transaction). The store holds at most MaxLinks junctions and hands out
\* at most MaxIds _ids.
AddApp(g, a, app, threshold) ==
    /\ readyCount > 0
    /\ LET j == NewJunction(nextId, a, g, app, threshold)
           inserted == ~\E x \in junction : x.app_id = a /\ x.server_id = g
       IN /\ inserted => nextId <= MaxIds /\ Cardinality(junction) < MaxLinks
          /\ Addable(app)
          /\ junction' = add_junction_if_not_exists(junction, j)
          /\ apps' = apps \cup {a}
          /\ nextId' = IF inserted THEN nextId + 1 ELSE nextId
          /\ hist' = IF inserted THEN [hist EXCEPT ![<<a, g>>] = NoHist]
                     ELSE hist
    /\ UNCHANGED <<discord, readyCount, readyLeft, auxVars, loopVars, obs>>

\* /add_apps for one app id, not committed: the fetch failed or found no
\* addable app, or the session, a write or the commit failed. The
\* collections stay as they were.
AddAppFailed(g, a) ==
    /\ readyCount > 0
    /\ UNCHANGED vars

\* ------------------------------------------------------- the scheduler
\* init_check_apps: sleep_until(checking_time()) returns, check_apps starts
Wake(t) ==
    /\ pc[t] = "sleep"
    /\ pc' = [pc EXCEPT ![t] = "orphans_find"]
    /\ ids' = [ids EXCEPT ![t] = {}]
    /\ cache' = [cache EXCEPT ![t] = {}]
    /\ obs' = [obs EXCEPT ![t] = NoObs]
    /\ UNCHANGED <<dbVars, readyCount, readyLeft, auxVars, orphans, cur, app_res,
                   tries, futs, result, hist>>

\* check_apps returns r to the loop, which logs an error and sleeps again
Return(t, r) ==
    /\ pc' = [pc EXCEPT ![t] = "sleep"]
    /\ result' = [result EXCEPT ![t] = r]

\* OrphansOf with a slip: `$match` on a trackers array that is not empty
OrphansOf_Tracked(appColl, juncColl) ==
    {a \in appColl : \E j \in juncColl : j.app_id = a}

\* AppsRepo::remove_orphans, the aggregate: apps with no junction
OrphansOf(appColl, juncColl) ==
    {a \in appColl : ~\E j \in juncColl : j.app_id = a}

\* OrphansFind with a slip: `remove_orphans().await?` ends check_apps
OrphansFind_Propagate(t) ==
    /\ pc[t] = "orphans_find"
    /\ \/ /\ orphans' = [orphans EXCEPT ![t] = OrphansOf(apps, junction)]
          /\ pc' = [pc EXCEPT ![t] = "orphans_delete"]
          /\ result' = result
       \/ /\ orphans' = orphans
          /\ Return(t, "err")
    /\ UNCHANGED <<dbVars, readyCount, readyLeft, auxVars, ids, cur, app_res, tries,
                   futs, cache, obs, hist>>

\* remove_orphans up to the end of the aggregate; an error is logged and
\* check_apps goes on to get_app_ids
OrphansFind(t) ==
    /\ pc[t] = "orphans_find"
    /\ \/ /\ orphans' = [orphans EXCEPT ![t] = OrphansOf(apps, junction)]
          /\ pc' = [pc EXCEPT ![t] = "orphans_delete"]
       \/ /\ orphans' = orphans
          /\ pc' = [pc EXCEPT ![t] = "get_app_ids"]
    /\ UNCHANGED <<dbVars, readyCount, readyLeft, auxVars, ids, cur, app_res, tries,
                   futs, cache, result, obs, hist>>

\* remove_orphans, the delete_many of the collected ids
OrphansDelete(t) ==
    /\ pc[t] = "orphans_delete"
    /\ \/ apps' = apps \ orphans[t]
       \/ apps' = apps
    /\ orphans' = [orphans EXCEPT ![t] = {}]
    /\ pc' = [pc EXCEPT ![t] = "get_app_ids"]
    /\ UNCHANGED <<discord, junction, nextId, readyCount, readyLeft, auxVars, ids, cur,
                   app_res, tries, futs, cache, result, obs, hist>>

\* apps_repo.get_app_ids().await? : the ids to visit, or check_apps fails
GetAppIds(t) ==
    /\ pc[t] = "get_app_ids"
    /\ \/ /\ ids' = [ids EXCEPT ![t] = apps]
          /\ pc' = [pc EXCEPT ![t] = "next_app"]
          /\ result' = result
       \/ /\ ids' = ids
          /\ Return(t, "err")
    /\ UNCHANGED <<dbVars, readyCount, readyLeft, auxVars, orphans, cur, app_res,
                   tries, futs, cache, obs, hist>>

\* NextApp with a slip: the for loop does not consume the id it visits
NextApp_Repeat(t) ==
    /\ pc[t] = "next_app"
    /\ futs[t] = {}
    /\ IF ids[t] = {}
       THEN /\ Return(t, "ok")
            /\ UNCHANGED <<ids, cur, tries, obs>>
       ELSE \E a \in ids[t] :
            /\ ids' = ids
            /\ cur' = [cur EXCEPT ![t] = a]
            /\ tries' = [tries EXCEPT ![t] = 0]
            /\ obs' = [obs EXCEPT ![t] = NoObs]
            /\ pc' = [pc EXCEPT ![t] = "app_details"]
            /\ result' = result
    /\ UNCHANGED <<dbVars, readyCount, readyLeft, auxVars, orphans, app_res, futs,
                   cache, hist>>

\* the for loop of check_apps takes the next app id (the order of the
\* collection is not specified), or ends and check_apps returns Ok(())
NextApp(t) ==
    /\ pc[t] = "next_app"
    /\ futs[t] = {}
    /\ IF ids[t] = {}
       THEN /\ Return(t, "ok")
            /\ UNCHANGED <<ids, cur, tries, obs>>
       ELSE \E a \in ids[t] :
            /\ ids' = [ids EXCEPT ![t] = ids[t] \ {a}]
            /\ cur' = [cur EXCEPT ![t] = a]
            /\ tries' = [tries EXCEPT ![t] = 0]
            /\ obs' = [obs EXCEPT ![t] = NoObs]
            /\ pc' = [pc EXCEPT ![t] = "app_details"]
            /\ result' = result
    /\ UNCHANGED <<dbVars, readyCount, readyLeft, auxVars, orphans, app_res, futs,
                   cache, hist>>

\* ---------------------------------------------------------------- get_app
\* WhileCond with a slip: it retries on any error
WhileCond_AnyError(res) == res.kind = "Err"

\* the condition of get_app's while loop
WhileCond(res) == res.kind = "Err" /\ res.rate_limited

\* Exhausted with a slip: it gives up one retry early
Exhausted_OneEarly(n) == n >= MAX_TRIES - 1

\* `if tries >= MAX_TRIES`
Exhausted(n) == n >= MAX_TRIES

\* the catalog's answer is a rate-limit error
RateLimited(r) == r = ErrRes(TRUE)

\* what one more answer r of the catalog adds to the observation
Answered(o, r) ==
    [o EXCEPT !.calls = o.calls + 1,
              !.rl = IF RateLimited(r) THEN o.rl + 1 ELSE o.rl,
              !.last = r]

\* the first steam.app_details(app_id).await and the loop test after it
AppDetails(t, r) ==
    /\ pc[t] = "app_details"
    /\ app_res' = [app_res EXCEPT ![t] = r]
    /\ obs' = [obs EXCEPT ![t] = Answered(obs[t], r)]
    /\ pc' = [pc EXCEPT ![t] = IF WhileCond(r) THEN "backoff" ELSE "got_app"]
    /\ UNCHANGED <<dbVars, readyCount, readyLeft, auxVars, ids, orphans, cur, tries,
                   futs, cache, result, hist>>

\* the loop body up to its second await: tokio::time::sleep(RETRY_TIMEOUT)
Backoff(t) ==
    /\ pc[t] = "backoff"
    /\ obs' = [obs EXCEPT ![t].sleeps = obs[t].sleeps + 1]
    /\ pc' = [pc EXCEPT ![t] = "retry"]
    /\ UNCHANGED <<dbVars, readyCount, readyLeft, auxVars, ids, orphans, cur, app_res,
                   tries, futs, cache, result, hist>>

\* the rest of the loop body: the fetch again, the test of tries, the
\* increment, and the loop test on the new app_res
Retry(t, r) ==
    /\ pc[t] = "retry"
    /\ app_res' = [app_res EXCEPT ![t] = r]
    /\ IF Exhausted(tries[t])
       THEN /\ obs' = [obs EXCEPT ![t] =
                          [Answered(obs[t], r) EXCEPT !.warned = TRUE]]
            /\ tries' = tries
            /\ pc' = [pc EXCEPT ![t] = "got_app"]
       ELSE /\ obs' = [obs EXCEPT ![t] = Answered(obs[t], r)]
            /\ tries' = [tries EXCEPT ![t] = tries[t] + 1]
            /\ pc' = [pc EXCEPT ![t] =
                         IF WhileCond(r) THEN "backoff" ELSE "got_app"]
    /\ UNCHANGED <<dbVars, readyCount, readyLeft, auxVars, ids, orphans, cur, futs,
                   cache, result, hist>>

\* -------------------------------------------- check_apps, one app's links
\* the app get_app returned, when it returned Ok(Some(app))
App(t) == app_res[t].val[1]

\* a future of for_each_concurrent: the junction it owns, where it stands
\* (st), the Discord record once resolved (d, an Option), and what it has
\* done so far: notifications attempted (rels, sales), how it ended (out),
\* and hist's prev of its link when it started
NewFut(j, readable) ==
    [j |-> j, st |-> IF readable THEN "discord" ELSE "end", d |-> <<>>,
     rels |-> 0, sales |-> 0,
     out |-> IF readable THEN "run" ELSE "read_err",
     prev |-> hist[<<j.app_id, j.server_id>>].prev]

End(f, how) == [f EXCEPT !.st = "end", !.out = how]

\* GotApp with a slip: `get_app(...).await?` hands an error to the caller
GotApp_Propagate(t) ==
    /\ pc[t] = "got_app"
    /\ IF app_res[t].kind = "Err"
       THEN Return(t, "err")
       ELSE /\ pc' = [pc EXCEPT ![t] =
                         IF app_res[t].val # <<>>
                         THEN "get_junctions" ELSE "next_app"]
            /\ result' = result
    /\ UNCHANGED <<dbVars, readyCount, readyLeft, auxVars, ids, orphans, cur, app_res,
                   tries, futs, cache, obs, hist>>

\* the match on get_app's result: not found and errors are logged and the
\* loop continues with the next app
GotApp(t) ==
    /\ pc[t] = "got_app"
    /\ pc' = [pc EXCEPT ![t] =
                 IF app_res[t].kind = "Ok" /\ app_res[t].val # <<>>
                 THEN "get_junctions" ELSE "next_app"]
    /\ UNCHANGED <<dbVars, readyCount, readyLeft, auxVars, ids, orphans, cur, app_res,
                   tries, futs, cache, result, obs, hist>>

\* JunctionRepo::get_junctions: the find on app_id
get_junctions(coll, app_id) == {j \in coll : j.app_id = app_id}

\* junc_repo.get_junctions(app_id).await? : an error ends check_apps;
\* otherwise every junction of the app gets a future, and a junction the
\* cursor cannot yield is only logged
GetJunctions(t) ==
    /\ pc[t] = "get_junctions"
    /\ \/ /\ \E bad \in SUBSET get_junctions(junction, cur[t]) :
                futs' = [futs EXCEPT ![t] =
                    {NewFut(j, j \notin bad) :
                        j \in get_junctions(junction, cur[t])}]
          /\ pc' = [pc EXCEPT ![t] = "for_each"]
          /\ result' = result
       \/ /\ futs' = futs
          /\ Return(t, "err")
    /\ tries' = [tries EXCEPT ![t] = 0]
    /\ obs' = [obs EXCEPT ![t] = NoObs]
    /\ UNCHANGED <<dbVars, readyCount, readyLeft, auxVars, ids, orphans, cur, app_res,
                   cache, hist>>

\* `junction.coming_soon && !app.release_date.coming_soon`
IsReleased(j, app) == j.coming_soon /\ ~app.coming_soon

\* is_significant_discount of notify_guild
IsSignificantDiscount(j, d, app) ==
    LET threshold == UnwrapOr(j.sale_threshold, d.sale_threshold)
    IN app.price_overview # <<>> /\ app.price_overview[1] >= threshold

\* `is_significant_discount && !junction.is_trailing_sale_day`
IsSale(j, d, app) ==
    IsSignificantDiscount(j, d, app) /\ ~j.is_trailing_sale_day

\* where notify_guild stands once the released notification is behind it
AfterReleased(f, d, app) ==
    [f EXCEPT !.d = <<d>>,
              !.st = IF IsSale(f.j, d, app) THEN "sale" ELSE "update"]

\* where notify_guild stands once the channel is known
AfterDiscord(f, d, app) ==
    IF IsReleased(f.j, app)
    THEN [f EXCEPT !.d = <<d>>, !.st = "released"]
    ELSE AfterReleased(f, d, app)

\* SetFut with a slip: the first future to end in an error drops the ones
\* still running (try_for_each_concurrent)
SetFut_FailFast(t, f, g) ==
    futs' = [futs EXCEPT ![t] =
                IF g.st = "end" /\ g.out \notin {"ok", "removed"}
                THEN {h \in futs[t] \ {f} : h.st = "end"} \cup {g}
                ELSE (futs[t] \ {f}) \cup {g}]

\* for_each_concurrent: one future takes a step, the others stay
SetFut(t, f, g) == futs' = [futs EXCEPT ![t] = (futs[t] \ {f}) \cup {g}]

\* get_guild with a slip: a default record stands in for a missing one
get_guild_OrDefault(coll, guild_id) ==
    IF \E d \in coll : d.server_id = guild_id
    THEN {d \in coll : d.server_id = guild_id}
    ELSE {NewDiscord(guild_id, 100)}

\* DiscordRepo::get_guild: find_one on server_id (the records it can yield)
get_guild(coll, guild_id) == {d \in coll : d.server_id = guild_id}

\* get_discord and the channel id: the cached record, or the record read
\* from the discord collection and inserted in the cache (OnceMap keeps a
\* value already present). A read error and a missing record end the
\* future; serenity::ChannelId::new panics on 0, which ends the loop task.
FutDiscord(t, f) ==
    /\ pc[t] = "for_each"
    /\ f \in futs[t]
    /\ f.st = "discord"
    /\ LET hit == {d \in cache[t] : d.server_id = f.j.server_id}
           found == get_guild(discord, f.j.server_id)
           go(d) ==
               IF d.channel_id = 0
               THEN /\ pc' = [pc EXCEPT ![t] = "dead"]
                    /\ futs' = [futs EXCEPT ![t] = {}]
               ELSE /\ pc' = pc
                    /\ SetFut(t, f, AfterDiscord(f, d, App(t)))
       IN IF hit # {}
          THEN /\ \E d \in hit : go(d)
               /\ cache' = cache
          ELSE \/ /\ SetFut(t, f, End(f, "repo_err"))
                  /\ UNCHANGED <<pc, cache>>
               \/ /\ found = {}
                  /\ SetFut(t, f, End(f, "repo_err"))
                  /\ UNCHANGED <<pc, cache>>
               \/ \E d \in found :
                     /\ cache' = [cache EXCEPT ![t] = cache[t] \cup {d}]
                     /\ go(d)
    /\ UNCHANGED <<dbVars, readyCount, readyLeft, auxVars, ids, orphans, cur, app_res,
                   tries, result, obs, hist>>

\* the first channel.send_message(...).await? : a failed send returns Err
FutReleased(t, f) ==
    /\ pc[t] = "for_each"
    /\ f \in futs[t]
    /\ f.st = "released"
    /\ LET g == [f EXCEPT !.rels = f.rels + 1]
           l == <<f.j.app_id, f.j.server_id>>
       IN \/ /\ SetFut(t, f, AfterReleased(g, f.d[1], App(t)))
             /\ hist' = [hist EXCEPT ![l].rel =
                            IF hist[l].rel < 2 THEN hist[l].rel + 1 ELSE 2]
          \/ /\ SetFut(t, f, End(g, "send_err"))
             /\ hist' = hist
    /\ UNCHANGED <<dbVars, readyCount, readyLeft, auxVars, pc, ids, orphans, cur,
                   app_res, tries, cache, result, obs>>

\* the second channel.send_message(...).await?
FutSale(t, f) ==
    /\ pc[t] = "for_each"
    /\ f \in futs[t]
    /\ f.st = "sale"
    /\ LET g == [f EXCEPT !.sales = f.sales + 1]
       IN \/ SetFut(t, f, [g EXCEPT !.st = "update"])
          \/ SetFut(t, f, End(g, "send_err"))
    /\ UNCHANGED <<dbVars, readyCount, readyLeft, auxVars, pc, ids, orphans, cur,
                   app_res, tries, cache, result, obs, hist>>

\* update_junction with a slip: the update_one is an upsert
update_junction_Upsert(coll, j) ==
    IF \E x \in coll : x.id = j.id
    THEN {IF x.id = j.id
          THEN [x EXCEPT !.is_trailing_sale_day = j.is_trailing_sale_day,
                         !.coming_soon = j.coming_soon]
          ELSE x : x \in coll}
    ELSE coll \cup {j}

\* JunctionRepo::update_junction: $set of the serialized junction on the
\* document with its _id; sale_threshold is serialized only when Some
update_junction(coll, j) ==
    {IF x.id = j.id
     THEN [x EXCEPT !.app_id = j.app_id, !.server_id = j.server_id,
                    !.is_trailing_sale_day = j.is_trailing_sale_day,
                    !.coming_soon = j.coming_soon,
                    !.sale_threshold =
                        IF j.sale_threshold = <<>> THEN @ ELSE j.sale_threshold]
     ELSE x : x \in coll}

\* Snapshot with a slip: is_trailing_sale_day is set, never reset
Snapshot_Sticky(j, d, app) ==
    [j EXCEPT !.coming_soon = app.coming_soon,
              !.is_trailing_sale_day =
                  @ \/ IsSignificantDiscount(j, d, app)]

\* the junction notify_guild hands to update_junction
Snapshot(j, d, app) ==
    [j EXCEPT !.coming_soon = app.coming_soon,
              !.is_trailing_sale_day = IsSignificantDiscount(j, d, app)]

\* `app.is_free && !app.release_date.coming_soon`
IsFreeAndReleased(app) == app.is_free /\ ~app.coming_soon

\* ctx.repo.junction.update_junction(&junction).await? and the return to
\* the closure of for_each_concurrent
FutUpdate(t, f) ==
    /\ pc[t] = "for_each"
    /\ f \in futs[t]
    /\ f.st = "update"
    /\ \/ /\ junction' = update_junction(junction,
                                         Snapshot(f.j, f.d[1], App(t)))
          /\ SetFut(t, f, IF IsFreeAndReleased(App(t))
                          THEN [f EXCEPT !.st = "remove"]
                          ELSE End(f, "ok"))
       \/ /\ junction' = junction
          /\ SetFut(t, f, End(f, "repo_err"))
    /\ UNCHANGED <<discord, apps, nextId, readyCount, readyLeft, auxVars, pc, ids,
                   orphans, cur, app_res, tries, cache, result, obs, hist>>

\* the query of JunctionRepo::remove_junction
RemoveQuery(x, guild_id, app_id) ==
    x.server_id = guild_id /\ x.app_id = app_id

\* JunctionRepo::remove_junction: delete_one on (server_id, app_id)
FutRemove(t, f) ==
    /\ pc[t] = "for_each"
    /\ f \in futs[t]
    /\ f.st = "remove"
    /\ LET match == {x \in junction :
                         RemoveQuery(x, f.j.server_id, f.j.app_id)}
       IN \/ /\ match # {}
             /\ \E x \in match : junction' = junction \ {x}
             /\ SetFut(t, f, End(f, "removed"))
          \/ /\ junction' = junction
             /\ SetFut(t, f, End(f, "ok"))
    /\ UNCHANGED <<discord, apps, nextId, readyCount, readyLeft, auxVars, pc, ids,
                   orphans, cur, app_res, tries, cache, result, obs, hist>>

\* what a finished future leaves in hist for the next sweep: whether the
\* discount it saw was below the threshold, unless a repository error cut
\* the evaluation short; rel starts again when the app is (still) coming
\* soon, the link is gone or a repository error interfered
HistAfter(h, f, app) ==
    IF f.out \in {"repo_err", "read_err", "removed"}
    THEN NoHist
    ELSE [prev |-> IF IsSignificantDiscount(f.j, f.d[1], app)
                   THEN "above" ELSE "below",
          rel |-> IF app.coming_soon THEN 0 ELSE h.rel]

\* for_each_concurrent(...).await returns when every future has ended
ForEachDone(t) ==
    /\ pc[t] = "for_each"
    /\ \A f \in futs[t] : f.st = "end"
    /\ futs' = [futs EXCEPT ![t] = {}]
    /\ pc' = [pc EXCEPT ![t] = "next_app"]
    /\ hist' = [l \in DOMAIN hist |->
                   IF \E f \in futs[t] : <<f.j.app_id, f.j.server_id>> = l
                   THEN LET f == CHOOSE f \in futs[t] :
                                    <<f.j.app_id, f.j.server_id>> = l
                        IN HistAfter(hist[l], f, App(t))
                   ELSE hist[l]]
    /\ UNCHANGED <<dbVars, readyCount, readyLeft, auxVars, ids, orphans, cur, app_res,
                   tries, cache, result, obs>>

\* ------------------------------------------------------------------ Next
LoopStep(t) ==
    \/ Wake(t)
    \/ OrphansFind(t)
    \/ OrphansDelete(t)
    \/ GetAppIds(t)
    \/ NextApp(t)
    \/ \E r \in FetchResults : AppDetails(t, r)
    \/ Backoff(t)
    \/ \E r \in FetchResults : Retry(t, r)
    \/ GotApp(t)
    \/ GetJunctions(t)
    \/ \E f \in futs[t] : FutDiscord(t, f)
    \/ \E f \in futs[t] : FutReleased(t, f)
    \/ \E f \in futs[t] : FutSale(t, f)
    \/ \E f \in futs[t] : FutUpdate(t, f)
    \/ \E f \in futs[t] : FutRemove(t, f)
    \/ ForEachDone(t)

Next ==
    \/ Ready
    \/ \E g \in Guilds, ch \in ChannelIds : GuildCreate(g, ch)
    \/ \E g \in Guilds, a \in AppIds, app \in SteamApps,
          th \in ThresholdArgs : AddApp(g, a, app, th)
    \/ \E g \in Guilds, a \in AppIds : AddAppFailed(g, a)
    \/ \E t \in Tasks : LoopStep(t)

\* One gateway session: Ready is delivered once.
Init == InitWith(1)

Spec == Init /\ [][Next]_vars

\* The gateway delivers Ready up to MaxReady times (a re-identify after a
\* lost session, or one Ready per shard); no guild has added an app, so
\* every sweep finds the apps collection empty.
InitReady == InitWith(MaxReady)

NextReady ==
    \/ Ready
    \/ \E t \in Tasks : Wake(t)
    \/ \E t \in Tasks : OrphansFind(t)
    \/ \E t \in Tasks : OrphansDelete(t)
    \/ \E t \in Tasks : GetAppIds(t)
    \/ \E t \in Tasks : NextApp(t)

SpecReady == InitReady /\ [][NextReady]_vars

\* ------------------------------------------- the scheduler and the clock
\* the calendar day of an hour count
Day(t) == t \div HoursPerDay

\* `now.date()`: midnight of the day of t
Date(t) == t - (t % HoursPerDay)

\* `now.date().and_hms_opt(17, 0, 0)`
today_17(t) == Date(t) + HOUR

\* next_17 with a slip: `now <= today_17`
next_17_Inclusive(t) ==
    IF t <= today_17(t) THEN today_17(t) ELSE today_17(t) + HoursPerDay

\* `if now < today_17 { today_17 } else { today_17 + days(1) }`
next_17(t) ==
    IF t < today_17(t) THEN today_17(t) ELSE today_17(t) + HoursPerDay

\* `(next_17 - now).to_std()`: Ok for a duration that is not negative
duration(t) == next_17(t) - t

\* checking_time: `tokio::time::Instant::now() + duration`
checking_time(t) == t + duration(t)

\* SleepUntil with a slip: the sleep returns an hour early
SleepUntil_Early(t, deadline) == t + 1 >= deadline

\* tokio::time::sleep_until(deadline) returns no earlier than the deadline
SleepUntil(t, deadline) == t >= deadline

\* the sleep of the loop is over: the tokio timer fires within its
\* millisecond granularity of the deadline
Overdue == sched.pc = "sleep" /\ SleepUntil(now, sched.deadline)

\* an hour passes, whatever the loop is doing, unless the timer is due
Tick ==
    /\ now < MaxDays * HoursPerDay
    /\ ~Overdue
    /\ now' = now + 1
    /\ UNCHANGED <<dbVars, progVars, app_names, sched, sess, done>>

\* the loop calls checking_time() and starts to sleep
ClockCompute ==
    /\ sched.pc = "compute"
    /\ duration(now) >= 0
    /\ sched' = [sched EXCEPT !.pc = "sleep", !.at = now,
                              !.deadline = checking_time(now)]
    /\ UNCHANGED <<dbVars, progVars, app_names, now, sess, done>>

\* sleep_until returns and check_apps starts
ClockWake ==
    /\ sched.pc = "sleep"
    /\ SleepUntil(now, sched.deadline)
    /\ sched' = [sched EXCEPT !.pc = "sweep", !.start = now, !.at = 0,
                              !.returned = -1, !.lastDay = Day(now),
                              !.prevDay = sched.lastDay]
    /\ UNCHANGED <<dbVars, progVars, app_names, now, sess, done>>

\* check_apps returns, with Ok or Err, after however long it took
ClockReturn ==
    /\ sched.pc = "sweep"
    /\ sched' = [sched EXCEPT !.pc = "compute", !.returned = now,
                              !.start = -1, !.deadline = 0, !.prevDay = -1,
                              !.long = now - sched.start > HoursPerDay]
    /\ UNCHANGED <<dbVars, progVars, app_names, now, sess, done>>

\* The process starts at any hour of day 0.
InitClock ==
    /\ discord = {} /\ junction = {} /\ apps = {} /\ nextId = 1
    /\ readyCount = 1 /\ readyLeft = 0
    /\ pc = [t \in Tasks |-> "unborn"]
    /\ ids = [t \in Tasks |-> {}]
    /\ orphans = [t \in Tasks |-> {}]
    /\ cur = [t \in Tasks |-> 0]
    /\ app_res = [t \in Tasks |-> OkRes(<<>>)]
    /\ tries = [t \in Tasks |-> 0]
    /\ futs = [t \in Tasks |-> {}]
    /\ cache = [t \in Tasks |-> {}]
    /\ result = [t \in Tasks |-> "none"]
    /\ obs = [t \in Tasks |-> NoObs]
    /\ hist = [l \in Links |-> NoHist]
    /\ now \in 0..(HoursPerDay - 1)
    /\ sched = NoSched
    /\ sess = [s \in Sessions |-> NoTx]
    /\ done = NoDone
    /\ app_names = CatalogNames

NextClock ==
    \/ Tick
    \/ ClockCompute
    \/ ClockWake
    \/ ClockReturn

SpecClock == InitClock /\ [][NextClock]_vars

\* ------------------------------------- commands and handlers, step by step
\* The repository calls of the commands and of guild_delete, one await at a
\* time, on MaxSessions tasks that run side by side. A write made with
\* `.session(&mut session)` is staged in the session and reaches the
\* collection when commit_transaction succeeds; dropping the session
\* without a commit aborts the transaction.
RepoGuilds == 1..MaxRepoGuilds

\* the threshold argument of /set_discount_threshold
RepoThresholds == {5}

\* the appids argument of /set_discount_threshold and /remove_apps
IdLists == (SUBSET AppIds) \ {{}}

\* SessionInsert with a slip: the write is not attached to the session
SessionInsert_Unattached(coll, docs) == coll \cup docs

\* what other tasks see of a collection after an insert staged in a session
SessionInsert(coll, docs) == coll

\* SessionDelete with a slip: the delete is not attached to the session
SessionDelete_Unattached(coll, docs) == coll \ docs

\* what other tasks see of a collection after a delete staged in a session
SessionDelete(coll, docs) == coll

\* JunctionRepo::add_junction, which search.rs calls: insert-or-noop keyed
\* by (app_id, server_id)
add_junction(coll, j) ==
    IF \E x \in coll : x.app_id = j.app_id /\ x.server_id = j.server_id
    THEN coll
    ELSE coll \cup {j}

\* the junctions of one (app, guild) pair, and of one guild
LinksOf(coll, a, g) == {x \in coll : x.app_id = a /\ x.server_id = g}
GuildLinks(coll, g) == {x \in coll : x.server_id = g}
GuildConfigs(coll, g) == {d \in coll : d.server_id = g}

Idle(s) == sess[s].op = "none"
SetSess(s, v) == sess' = [sess EXCEPT ![s] = v]

\* guild_create as its caller sees it: what add_guild_if_not_exists did
\* and returned
AddGuild(g, ch) ==
    /\ \/ /\ discord' = add_guild_if_not_exists(discord, g, ch)
          /\ done' = [op |-> "add_guild", ok |-> TRUE, g |-> g, ch |-> ch,
                      pre |-> discord]
       \/ /\ discord' = discord
          /\ done' = [op |-> "add_guild", ok |-> FALSE, g |-> g, ch |-> ch,
                      pre |-> discord]
    /\ UNCHANGED <<junction, apps, nextId, progVars, app_names, now, sched,
                   sess>>

\* add_apps_to_db, one app: start_session and start_transaction succeeded
\* and the junction is built
AddBegin(s, g, a, cs, th) ==
    /\ Idle(s)
    /\ SetSess(s, [op |-> "add", via |-> "add_apps", st |-> "junction",
                   j |-> NewJunction(0, a, g, [coming_soon |-> cs], th),
                   ins |-> {}])
    /\ done' = NoDone
    /\ UNCHANGED <<dbVars, progVars, app_names, now, sched>>

\* search's add_app_to_db: the same transaction with sale_threshold: None
SearchBegin(s, g, a, cs) ==
    /\ Idle(s)
    /\ SetSess(s, [op |-> "add", via |-> "search", st |-> "junction",
                   j |-> NewJunction(0, a, g, [coming_soon |-> cs], <<>>),
                   ins |-> {}])
    /\ done' = NoDone
    /\ UNCHANGED <<dbVars, progVars, app_names, now, sched>>

\* a command or handler gives up: the session is dropped, nothing staged
\* is applied
Abort(s, what) ==
    /\ SetSess(s, NoTx)
    /\ done' = [op |-> what, ok |-> FALSE, was |-> sess[s]]
    /\ UNCHANGED <<dbVars, progVars, app_names, now, sched>>

\* the junction upsert in the session: it matches against the collection
\* as the transaction sees it, and an insert gets a fresh _id
TxJunction(s) ==
    /\ sess[s].op = "add"
    /\ sess[s].st = "junction"
    /\ \/ LET j == [sess[s].j EXCEPT !.id = nextId]
              seen == junction \cup sess[s].ins
              after == IF sess[s].via = "search"
                       THEN add_junction(seen, j)
                       ELSE add_junction_if_not_exists(seen, j)
              ins == after \ junction
          IN /\ ins # {} => nextId <= MaxRepoIds
             /\ nextId' = IF ins # {} THEN nextId + 1 ELSE nextId
             /\ junction' = SessionInsert(junction, ins)
             /\ SetSess(s, [sess[s] EXCEPT !.st = "apps", !.ins = ins])
             /\ done' = NoDone
             /\ UNCHANGED <<discord, apps, progVars, app_names, now, sched>>
       \/ Abort(s, "add")

\* the apps upsert in the session
TxApps(s) ==
    /\ sess[s].op = "add"
    /\ sess[s].st = "apps"
    /\ \/ /\ apps' = SessionInsert(apps, {sess[s].j.app_id})
          /\ SetSess(s, [sess[s] EXCEPT !.st = "commit"])
          /\ done' = NoDone
          /\ UNCHANGED <<discord, junction, nextId, progVars, app_names, now,
                         sched>>
       \/ Abort(s, "add")

\* session.commit_transaction() of an add
TxCommit(s) ==
    /\ sess[s].op = "add"
    /\ sess[s].st = "commit"
    /\ \/ /\ junction' = junction \cup sess[s].ins
          /\ apps' = apps \cup {sess[s].j.app_id}
          /\ SetSess(s, NoTx)
          /\ done' = [op |-> "add", ok |-> TRUE, j |-> sess[s].j,
                      ins |-> sess[s].ins]
          /\ UNCHANGED <<discord, nextId, progVars, app_names, now, sched>>
       \/ Abort(s, "add")

\* guild_delete for a guild that is not merely unavailable:
\* remove_guild_records has its session and its transaction
RemoveBegin(s, g) ==
    /\ Idle(s)
    /\ SetSess(s, [op |-> "remove_guild", st |-> "discord", g |-> g,
                   snap |-> {}, delD |-> {}, delJ |-> {}])
    /\ done' = NoDone
    /\ UNCHANGED <<dbVars, progVars, app_names, now, sched>>

\* DiscordRepo::remove_guild in the session: delete_one on server_id. The
\* first operation fixes the snapshot the transaction reads from.
RemoveGuild(s) ==
    /\ sess[s].op = "remove_guild"
    /\ sess[s].st = "discord"
    /\ \/ \E del \in SUBSET GuildConfigs(discord, sess[s].g) :
             /\ Cardinality(del) =
                    IF GuildConfigs(discord, sess[s].g) = {} THEN 0 ELSE 1
             /\ discord' = SessionDelete(discord, del)
             /\ SetSess(s, [sess[s] EXCEPT !.st = "junction", !.delD = del,
                                !.snap = GuildLinks(junction, sess[s].g)])
             /\ done' = NoDone
             /\ UNCHANGED <<junction, apps, nextId, progVars, app_names, now,
                            sched>>
       \/ Abort(s, "remove_guild")

\* JunctionRepo::clear_junctions in the session: delete_many on server_id,
\* over the snapshot
RemoveClear(s) ==
    /\ sess[s].op = "remove_guild"
    /\ sess[s].st = "junction"
    /\ \/ /\ junction' = SessionDelete(junction, sess[s].snap)
          /\ SetSess(s, [sess[s] EXCEPT !.st = "commit",
                                        !.delJ = sess[s].snap])
          /\ done' = NoDone
          /\ UNCHANGED <<discord, apps, nextId, progVars, app_names, now,
                         sched>>
       \/ Abort(s, "remove_guild")

\* session.commit_transaction() of remove_guild_records: the staged
\* deletes reach the documents they were staged for
RemoveCommit(s) ==
    /\ sess[s].op = "remove_guild"
    /\ sess[s].st = "commit"
    /\ \/ /\ discord' = discord \ sess[s].delD
          /\ junction' = {x \in junction :
                             x.id \notin {y.id : y \in sess[s].delJ}}
          /\ SetSess(s, NoTx)
          /\ done' = [op |-> "remove_guild", ok |-> TRUE, g |-> sess[s].g,
                      delD |-> sess[s].delD, delJ |-> sess[s].delJ]
          /\ UNCHANGED <<apps, nextId, progVars, app_names, now, sched>>
       \/ Abort(s, "remove_guild")

\* /clear_apps confirmed: clear_junctions(guild_id).await?
ClearApps(g) ==
    /\ GuildLinks(junction, g) # {}
    /\ \/ junction' = junction \ GuildLinks(junction, g)
       \/ junction' = junction
    /\ done' = NoDone
    /\ UNCHANGED <<discord, apps, nextId, progVars, app_names, now, sched,
                   sess>>

\* JunctionRepo::remove_junctions: delete_many on server_id and app_id $in
remove_junctions(coll, g, app_ids) ==
    {x \in coll : ~(x.server_id = g /\ x.app_id \in app_ids)}

\* /remove_apps: the delete of the named junctions of the guild
RemoveApps(g, app_ids) ==
    /\ remove_junctions(junction, g, app_ids) # junction
    /\ \/ junction' = remove_junctions(junction, g, app_ids)
       \/ junction' = junction
    /\ done' = NoDone
    /\ UNCHANGED <<discord, apps, nextId, progVars, app_names, now, sched,
                   sess>>

\* ------------------------------------------------------- set_thresholds
\* UpdateQuery with a slip: the query names the app, not the document
UpdateQuery_ByApp(y, x) == y.app_id = x.app_id

\* `doc! { "_id": id }`: the document the update of set_thresholds names
UpdateQuery(y, x) == y.id = x.id

\* `$set: { sale_threshold: threshold }` on the documents the query matches
set_threshold_of(coll, x, threshold) ==
    {IF UpdateQuery(y, x) THEN [y EXCEPT !.sale_threshold = <<threshold>>]
     ELSE y : y \in coll}

\* set_thresholds up to the find: a failed find returns every id; otherwise
\* the cursor holds the snapshot of the guild's junctions named by app_ids.
\* exp is the junction collection as this call alone would have it.
ThresholdsFind(s, g, threshold, app_ids) ==
    /\ Idle(s)
    /\ \/ /\ SetSess(s, [op |-> "set_thresholds", g |-> g,
                         th |-> threshold, ids |-> app_ids,
                         cursor |-> {x \in junction : x.server_id = g
                                        /\ x.app_id \in app_ids},
                         updated_apps |-> {}, faults |-> {},
                         exp |-> junction])
          /\ done' = NoDone
       \/ /\ sess' = sess
          /\ done' = [op |-> "set_thresholds", g |-> g, th |-> threshold,
                      ids |-> app_ids, ret |-> app_ids, faults |-> app_ids,
                      clean |-> TRUE]
    /\ UNCHANGED <<dbVars, progVars, app_names, now, sched>>

\* one pass of the while loop: the cursor yields an error (continue), or a
\* junction whose update_one succeeds (its app_id is pushed) or fails
ThresholdsNext(s) ==
    /\ sess[s].op = "set_thresholds"
    /\ \E x \in sess[s].cursor :
         LET rest == [sess[s] EXCEPT !.cursor = @ \ {x}]
             failed == [rest EXCEPT !.faults = @ \cup {x.app_id}]
         IN \/ /\ junction' = set_threshold_of(junction, x, sess[s].th)
               /\ SetSess(s, [rest EXCEPT
                      !.updated_apps = @ \cup {x.app_id},
                      !.exp = IF junction = sess[s].exp
                              THEN junction' ELSE @])
            \/ /\ junction' = junction
               /\ SetSess(s, failed)
    /\ done' = NoDone
    /\ UNCHANGED <<discord, apps, nextId, progVars, app_names, now, sched>>

\* the cursor is exhausted: failed_apps is app_ids without updated_apps
ThresholdsReturn(s) ==
    /\ sess[s].op = "set_thresholds"
    /\ sess[s].cursor = {}
    /\ SetSess(s, NoTx)
    /\ done' = [op |-> "set_thresholds", g |-> sess[s].g, th |-> sess[s].th,
                ids |-> sess[s].ids,
                ret |-> sess[s].ids \ sess[s].updated_apps,
                faults |-> sess[s].faults,
                clean |-> junction = sess[s].exp]
    /\ UNCHANGED <<dbVars, progVars, app_names, now, sched>>

\* ------------------------------------------------- the repository at work
\* The bot is connected and the collections are empty.
InitRepo ==
    /\ discord = {} /\ junction = {} /\ apps = {} /\ nextId = 1
    /\ readyCount = 1 /\ readyLeft = 0
    /\ pc = [t \in Tasks |-> "unborn"]
    /\ ids = [t \in Tasks |-> {}]
    /\ orphans = [t \in Tasks |-> {}]
    /\ cur = [t \in Tasks |-> 0]
    /\ app_res = [t \in Tasks |-> OkRes(<<>>)]
    /\ tries = [t \in Tasks |-> 0]
    /\ futs = [t \in Tasks |-> {}]
    /\ cache = [t \in Tasks |-> {}]
    /\ result = [t \in Tasks |-> "none"]
    /\ obs = [t \in Tasks |-> NoObs]
    /\ hist = [l \in Links |-> NoHist]
    /\ now = 0
    /\ sched = NoSched
    /\ sess = [s \in Sessions |-> NoTx]
    /\ done = NoDone
    /\ app_names = CatalogNames

\* /add_apps and /search of two users of guild 1 side by side, with
\* /clear_apps and /remove_apps
NextAdd ==
    \/ \E s \in Sessions, a \in AppIds, cs \in BOOLEAN,
          th \in ThresholdArgs : AddBegin(s, 1, a, cs, th)
    \/ \E s \in Sessions : SearchBegin(s, 1, 1, TRUE)
    \/ \E s \in Sessions : TxJunction(s)
    \/ \E s \in Sessions : TxApps(s)
    \/ \E s \in Sessions : TxCommit(s)
    \/ ClearApps(1)
    \/ \E l \in IdLists : RemoveApps(1, l)

SpecAdd == InitRepo /\ [][NextAdd]_vars

\* guild 1 comes and goes while a released app is added to it and to
\* guild 2
NextGuild ==
    \/ \E ch \in ChannelIds : AddGuild(1, ch)
    \/ \E s \in Sessions, g \in RepoGuilds : AddBegin(s, g, 1, FALSE, <<>>)
    \/ \E s \in Sessions : TxJunction(s)
    \/ \E s \in Sessions : TxApps(s)
    \/ \E s \in Sessions : TxCommit(s)
    \/ \E s \in Sessions : RemoveBegin(s, 1)
    \/ \E s \in Sessions : RemoveGuild(s)
    \/ \E s \in Sessions : RemoveClear(s)
    \/ \E s \in Sessions : RemoveCommit(s)

SpecGuild == InitRepo /\ [][NextGuild]_vars

\* /set_discount_threshold with appids, after and beside /add_apps
NextThresholds ==
    \/ \E s \in Sessions, g \in RepoGuilds, a \in AppIds :
          AddBegin(s, g, a, FALSE, <<>>)
    \/ \E s \in Sessions : TxJunction(s)
    \/ \E s \in Sessions : TxApps(s)
    \/ \E s \in Sessions : TxCommit(s)
    \/ \E s \in Sessions, g \in RepoGuilds, th \in RepoThresholds,
          l \in IdLists : ThresholdsFind(s, g, th, l)
    \/ \E s \in Sessions : ThresholdsNext(s)
    \/ \E s \in Sessions : ThresholdsReturn(s)

SpecThresholds == InitRepo /\ [][NextThresholds]_vars

\* ------------------------------------------- remove_orphans on its own
\* the junction collection in which pair (a, g) has a junction, released
\* or coming soon, or none, as f says
JunctionsFrom(f) ==
    {NewJunction((p[1] - 1) * MaxRepoGuilds + p[2], p[1], p[2],
                 [coming_soon |-> f[p] = "soon"], <<>>) :
        p \in {q \in AppIds \X RepoGuilds : f[q] # "none"}}

\* Every app has its row in the apps collection, the guilds track any of
\* them, and the loop task sleeps; nothing but the sweep writes.
InitPrune ==
    /\ discord = {}
    /\ \E f \in [AppIds \X RepoGuilds -> {"none", "released", "soon"}] :
           junction = JunctionsFrom(f)
    /\ apps = AppIds
    /\ nextId = MaxApps * MaxRepoGuilds + 1
    /\ readyCount = 1 /\ readyLeft = 0
    /\ pc = [t \in Tasks |-> IF t = 1 THEN "sleep" ELSE "unborn"]
    /\ ids = [t \in Tasks |-> {}]
    /\ orphans = [t \in Tasks |-> {}]
    /\ cur = [t \in Tasks |-> 0]
    /\ app_res = [t \in Tasks |-> OkRes(<<>>)]
    /\ tries = [t \in Tasks |-> 0]
    /\ futs = [t \in Tasks |-> {}]
    /\ cache = [t \in Tasks |-> {}]
    /\ result = [t \in Tasks |-> "none"]
    /\ obs = [t \in Tasks |-> NoObs]
    /\ hist = [l \in Links |-> NoHist]
    /\ now = 0
    /\ sched = NoSched
    /\ sess = [s \in Sessions |-> NoTx]
    /\ done = NoDone
    /\ app_names = CatalogNames

NextPrune ==
    \/ Wake(1)
    \/ OrphansFind(1)
    \/ OrphansDelete(1)

SpecPrune == InitPrune /\ [][NextPrune]_vars

\* ------------------------------------------------- one sweep on its own
\* the (app, guild) pairs that can have a junction when the sweep starts:
\* app 1 in both guilds, app 2 in the first
SweepPairs == {p \in AppIds \X RepoGuilds : p[1] = 1 \/ p[2] = 1}

\* what a pair's junction can be when the sweep starts: none, one of an
\* app that was coming soon, one of a released app, one left with
\* is_trailing_sale_day set by the sweep before
SweepKinds == {"none", "soon", "released", "trailing"}

\* the junction collection in which pair p has the junction f says
SweepJunctions(f) ==
    {[NewJunction((p[1] - 1) * MaxRepoGuilds + p[2], p[1], p[2],
                  [coming_soon |-> f[p] = "soon"], <<>>)
         EXCEPT !.is_trailing_sale_day = f[p] = "trailing"] :
        p \in {q \in SweepPairs : f[q] # "none"}}

\* check_apps has just been entered by the one loop task; each guild has
\* its record or has lost it, every app has its apps row, and nothing but
\* the sweep writes.
InitSweep ==
    /\ \E gs \in SUBSET RepoGuilds :
           discord = {NewDiscord(g, 100) : g \in gs}
    /\ \E f \in [SweepPairs -> SweepKinds] :
           junction = SweepJunctions(f)
    /\ apps = AppIds
    /\ nextId = MaxApps * MaxRepoGuilds + 1
    /\ readyCount = 1 /\ readyLeft = 0
    /\ pc = [t \in Tasks |-> IF t = 1 THEN "orphans_find" ELSE "unborn"]
    /\ ids = [t \in Tasks |-> {}]
    /\ orphans = [t \in Tasks |-> {}]
    /\ cur = [t \in Tasks |-> 0]
    /\ app_res = [t \in Tasks |-> OkRes(<<>>)]
    /\ tries = [t \in Tasks |-> 0]
    /\ futs = [t \in Tasks |-> {}]
    /\ cache = [t \in Tasks |-> {}]
    /\ result = [t \in Tasks |-> "none"]
    /\ obs = [t \in Tasks |-> NoObs]
    /\ hist = [l \in AppIds \X RepoGuilds |-> NoHist]
    /\ now = 0
    /\ sched = NoSched
    /\ sess = [s \in Sessions |-> NoTx]
    /\ done = NoDone
    /\ app_names = CatalogNames

NextSweep ==
    \/ OrphansFind(1)
    \/ OrphansDelete(1)
    \/ GetAppIds(1)
    \/ NextApp(1)
    \/ \E r \in FetchResults : AppDetails(1, r)
    \/ Backoff(1)
    \/ \E r \in FetchResults : Retry(1, r)
    \/ GotApp(1)
    \/ GetJunctions(1)
    \/ \E f \in futs[1] : FutDiscord(1, f)
    \/ \E f \in futs[1] : FutReleased(1, f)
    \/ \E f \in futs[1] : FutSale(1, f)
    \/ \E f \in futs[1] : FutUpdate(1, f)
    \/ \E f \in futs[1] : FutRemove(1, f)
    \/ ForEachDone(1)

SpecSweep == InitSweep /\ [][NextSweep]_vars

\* The sweep as the runtime drives it: every await of check_apps returns
\* and the task is polled again, so a step that can be taken is taken.
SpecSweepFair == SpecSweep /\ WF_vars(NextSweep)

\* ------------------------------------------------------ get_app_listings
\* what a pair's junction can be when /list_apps runs: none, one with no
\* sale_threshold of its own, one with its own
ListKinds == {"none", "plain", "own"}

\* the junction collection in which pair p has the junction f says
ListJunctions(f) ==
    {NewJunction((p[1] - 1) * MaxRepoGuilds + p[2], p[1], p[2],
                 [coming_soon |-> FALSE],
                 IF f[p] = "own" THEN <<10>> ELSE <<>>) :
        p \in {q \in AppIds \X RepoGuilds : f[q] # "none"}}

\* models::App rows of the apps collection
AppRows(appColl, names) ==
    {[app_id |-> a, app_name |-> names[a]] : a \in appColl}

\* ListingMatch with a slip: the pipeline has no `$match` on server_id
ListingMatch_Any(j, guild_id) == TRUE

\* `$match: { server_id: guild_id }`
ListingMatch(j, guild_id) == j.server_id = guild_id

\* `$lookup` of the apps rows with the junction's app_id, as `apps`
AppListingAggregate(j, rows) ==
    [junction |-> j, apps |-> {r \in rows : r.app_id = j.app_id}]

\* AppListingAggregate::try_into: <<>> stands for the Err it returns when
\* `apps` is empty, <<listing>> for Ok(listing)
try_into(agg) ==
    IF agg.apps = {}
    THEN <<>>
    ELSE LET app == CHOOSE r \in agg.apps : TRUE
         IN <<[app_id |-> app.app_id, app_name |-> app.app_name,
               sale_threshold |-> agg.junction.sale_threshold]>>

\* the orders a cursor can yield the documents of S in
Orders(S) ==
    {s \in [1..Cardinality(S) -> S] :
        \A i, k \in 1..Cardinality(S) : s[i] = s[k] => i = k}

\* filter_map and collect over the stream: a document that cannot be read
\* (bad) or whose try_into fails is left out
RECURSIVE Collect(_, _, _)
Collect(stream, bad, rows) ==
    IF stream = <<>>
    THEN <<>>
    ELSE LET x == Head(stream)
             rest == Collect(Tail(stream), bad, rows)
         IN IF x \in bad
            THEN rest
            ELSE try_into(AppListingAggregate(x, rows)) \o rest

\* JunctionRepo::get_app_listings: the aggregate fails as a whole, or
\* some documents of the stream cannot be read, or all goes well
ListApps(g) ==
    /\ LET matched == {j \in junction : ListingMatch(j, g)}
       IN \/ done' = [op |-> "get_app_listings", g |-> g, ok |-> FALSE,
                      bad |-> {}, ret |-> <<>>]
          \/ \E stream \in Orders(matched), bad \in SUBSET matched :
                done' = [op |-> "get_app_listings", g |-> g, ok |-> TRUE,
                         bad |-> bad,
                         ret |-> Collect(stream, bad,
                                         AppRows(apps, app_names))]
    /\ UNCHANGED <<dbVars, progVars, now, sched, sess, app_names>>

\* Guilds track any of the apps, with or without a threshold of their
\* own; an apps row can be missing and carries any name.
InitList ==
    /\ discord = {NewDiscord(g, 100) : g \in RepoGuilds}
    /\ \E f \in [AppIds \X RepoGuilds -> ListKinds] :
           junction = ListJunctions(f)
    /\ apps \in SUBSET AppIds
    /\ app_names \in [AppIds -> Names]
    /\ nextId = MaxApps * MaxRepoGuilds + 1
    /\ readyCount = 1 /\ readyLeft = 0
    /\ pc = [t \in Tasks |-> IF t = 1 THEN "sleep" ELSE "unborn"]
    /\ ids = [t \in Tasks |-> {}]
    /\ orphans = [t \in Tasks |-> {}]
    /\ cur = [t \in Tasks |-> 0]
    /\ app_res = [t \in Tasks |-> OkRes(<<>>)]
    /\ tries = [t \in Tasks |-> 0]
    /\ futs = [t \in Tasks |-> {}]
    /\ cache = [t \in Tasks |-> {}]
    /\ result = [t \in Tasks |-> "none"]
    /\ obs = [t \in Tasks |-> NoObs]
    /\ hist = [l \in Links |-> NoHist]
    /\ now = 0
    /\ sched = NoSched
    /\ sess = [s \in Sessions |-> NoTx]
    /\ done = NoDone

NextList == \E g \in RepoGuilds : ListApps(g)

SpecList == InitList /\ [][NextList]_vars

\* ------------------------------------------------- guild_delete events
\* the one loop task stands at `at` with nothing of a sweep in its hands,
\* and no command is running
LoopAt(at) ==
    /\ readyCount = 1 /\ readyLeft = 0
    /\ pc = [t \in Tasks |-> IF t = 1 THEN at ELSE "unborn"]
    /\ ids = [t \in Tasks |-> {}]
    /\ orphans = [t \in Tasks |-> {}]
    /\ cur = [t \in Tasks |-> 0]
    /\ app_res = [t \in Tasks |-> OkRes(<<>>)]
    /\ tries = [t \in Tasks |-> 0]
    /\ futs = [t \in Tasks |-> {}]
    /\ cache = [t \in Tasks |-> {}]
    /\ result = [t \in Tasks |-> "none"]
    /\ obs = [t \in Tasks |-> NoObs]
    /\ hist = [l \in AppIds \X RepoGuilds |-> NoHist]
    /\ now = 0
    /\ sched = NoSched
    /\ sess = [s \in Sessions |-> NoTx]
    /\ done = NoDone
    /\ app_names = CatalogNames

\* the loop task sleeps between two sweeps
AtRest == LoopAt("sleep")

\* GuildDelete with a slip: the `unavailable` flag is not looked at
GuildDelete_AnyEvent(s, g, unavailable) ==
    /\ Idle(s)
    /\ SetSess(s, [op |-> "remove_guild", st |-> "discord", g |-> g,
                   snap |-> {}, delD |-> {}, delJ |-> {}])
    /\ done' = [op |-> "guild_delete", g |-> g, unavailable |-> unavailable]
    /\ UNCHANGED <<dbVars, progVars, app_names, now, sched>>

\* RemovedFromGuild::guild_delete up to its first await: an event that
\* marks the guild unavailable returns at once; otherwise
\* remove_guild_records gets its session and starts its transaction
GuildDelete(s, g, unavailable) ==
    /\ Idle(s)
    /\ IF unavailable
       THEN sess' = sess
       ELSE SetSess(s, [op |-> "remove_guild", st |-> "discord", g |-> g,
                        snap |-> {}, delD |-> {}, delJ |-> {}])
    /\ done' = [op |-> "guild_delete", g |-> g, unavailable |-> unavailable]
    /\ UNCHANGED <<dbVars, progVars, app_names, now, sched>>

\* Both guilds have their record and track any of the apps; the gateway
\* delivers guild_delete events of both kinds.
InitOutage ==
    /\ discord = {NewDiscord(g, 100) : g \in RepoGuilds}
    /\ \E f \in [AppIds \X RepoGuilds -> {"none", "released", "soon"}] :
           junction = JunctionsFrom(f)
    /\ apps = AppIds
    /\ nextId = MaxApps * MaxRepoGuilds + 1
    /\ AtRest

NextOutage ==
    \/ \E s \in Sessions, g \in RepoGuilds, u \in BOOLEAN :
          GuildDelete(s, g, u)
    \/ \E s \in Sessions : RemoveGuild(s)
    \/ \E s \in Sessions : RemoveClear(s)
    \/ \E s \in Sessions : RemoveCommit(s)

SpecOutage == InitOutage /\ [][NextOutage]_vars

\* ------------------------------------------------- /add_apps and /search
\* every result Client::app_details can hand to a command; of steam::App
\* the commands read app_id, the `steam_appid` of the answer, which the
\* catalog chooses, and the two flags
CommandAnswers ==
    {OkRes(<<>>)} \cup {ErrRes(rl) : rl \in BOOLEAN}
        \cup {OkRes(<<a>>) : a \in [app_id : AppIds, coming_soon : BOOLEAN,
                                     is_free : BOOLEAN]}

\* add_apps up to fetch_apps: the ids are parsed and the fetches are in
\* the stream. Three fields only observe: pre is the junction collection
\* the command found, no_app the ids whose fetch brought no app, aborted
\* the app_ids whose transaction did not commit.
AddAppsBegin(s, g, app_ids, th) ==
    /\ Idle(s)
    /\ SetSess(s, [op |-> "add_apps", st |-> "fetch", g |-> g,
                   app_ids |-> app_ids, threshold |-> th,
                   fetches |-> app_ids, no_app |-> {}, apps |-> {},
                   rate_limited |-> FALSE, added_apps |-> {},
                   aborted |-> {}, pre |-> junction])
    /\ done' = NoDone
    /\ UNCHANGED <<dbVars, progVars, app_names, now, sched>>

\* fetch_apps, one pass of `while let Some(..) = fetch_stream.next()`:
\* buffer_unordered yields the answers in any order; an addable app is
\* pushed, a rate-limit error breaks the loop and drops the fetches left
AddAppsFetch(s, app_id, r) ==
    /\ sess[s].op = "add_apps"
    /\ sess[s].st = "fetch"
    /\ app_id \in sess[s].fetches
    /\ LET c == [sess[s] EXCEPT !.fetches = @ \ {app_id},
                                !.no_app = IF Found(r) THEN @
                                           ELSE @ \cup {app_id}]
           stop(x) == IF x.fetches = {} \/ x.rate_limited
                      THEN [x EXCEPT !.st = "db"] ELSE x
       IN SetSess(s, stop(
              IF Found(r)
              THEN IF Addable(r.val[1])
                   THEN [c EXCEPT !.apps = @ \cup {r.val[1]}]
                   ELSE c
              ELSE IF RateLimited(r)
                   THEN [c EXCEPT !.rate_limited = TRUE]
                   ELSE c))
    /\ done' = NoDone
    /\ UNCHANGED <<dbVars, progVars, app_names, now, sched>>

\* add_apps_to_db, one pass of its for loop: the transaction with the
\* junction insert-if-absent and the apps upsert commits and the app is
\* pushed to added_apps, or a step of it fails and nothing is written
\* (the writes are staged in the session until the commit)
AddAppsTx(s) ==
    /\ sess[s].op = "add_apps"
    /\ sess[s].st = "db"
    /\ \E app \in sess[s].apps :
         LET j == NewJunction(nextId, app.app_id, sess[s].g, app,
                              sess[s].threshold)
             after == add_junction_if_not_exists(junction, j)
         IN /\ after # junction => nextId <= MaxRepoIds
            /\ \/ /\ junction' = after
                  /\ apps' = apps \cup {app.app_id}
                  /\ nextId' = IF after # junction THEN nextId + 1
                               ELSE nextId
                  /\ SetSess(s, [sess[s] EXCEPT
                         !.apps = @ \ {app},
                         !.added_apps = @ \cup {app}])
               \/ /\ UNCHANGED <<junction, apps, nextId>>
                  /\ SetSess(s, [sess[s] EXCEPT
                         !.apps = @ \ {app},
                         !.aborted = @ \cup {app.app_id}])
    /\ done' = NoDone
    /\ UNCHANGED <<discord, progVars, app_names, now, sched>>

\* the rest of add_apps: failed_apps are the requested ids that no added
\* app carries, and create_reply shows both lists
AddAppsReply(s) ==
    /\ sess[s].op = "add_apps"
    /\ sess[s].st = "db"
    /\ sess[s].apps = {}
    /\ LET added == {app.app_id : app \in sess[s].added_apps}
       IN done' = [op |-> "add_apps", g |-> sess[s].g,
                   app_ids |-> sess[s].app_ids,
                   no_app |-> sess[s].no_app \cup sess[s].fetches,
                   aborted |-> sess[s].aborted,
                   added_apps |-> added,
                   failed_apps |-> {a \in sess[s].app_ids : a \notin added},
                   rate_limited |-> sess[s].rate_limited,
                   pre |-> sess[s].pre]
    /\ SetSess(s, NoTx)
    /\ UNCHANGED <<dbVars, progVars, app_names, now, sched>>

\* `app.is_free && !app.release_date.coming_soon` of search's get_app
InvalidApp(app) == app.is_free /\ ~app.coming_soon

\* /search once an option is chosen: get_app fetches the app and turns
\* down one that is missing or invalid; otherwise add_app_to_db has its
\* session, its transaction and the junction (app only observes what was
\* fetched)
SearchGetApp(s, g, app_id, r) ==
    /\ Idle(s)
    /\ IF Found(r) /\ ~InvalidApp(r.val[1])
       THEN /\ SetSess(s, [op |-> "add", via |-> "search",
                           st |-> "junction",
                           j |-> NewJunction(0, r.val[1].app_id, g,
                                             r.val[1], <<>>),
                           ins |-> {}, app |-> r.val[1]])
            /\ done' = NoDone
       ELSE /\ sess' = sess
            /\ done' = [op |-> "search", ok |-> FALSE, g |-> g,
                        app_id |-> app_id, answer |-> r]
    /\ UNCHANGED <<dbVars, progVars, app_names, now, sched>>

\* The users of guild 1 run /add_apps and /search, one command after the
\* other, from empty collections on; the store hands out at most
\* MaxRepoIds _ids.
NextCommands ==
    \/ \E l \in (SUBSET AppIds) \ {{}}, th \in ThresholdArgs :
          AddAppsBegin(1, 1, l, th)
    \/ \E a \in AppIds, r \in CommandAnswers : AddAppsFetch(1, a, r)
    \/ AddAppsTx(1)
    \/ AddAppsReply(1)
    \/ \E a \in AppIds, r \in CommandAnswers : SearchGetApp(1, 1, a, r)
    \/ TxJunction(1)
    \/ TxApps(1)
    \/ TxCommit(1)

SpecCommands == InitRepo /\ [][NextCommands]_vars

\* --------------------------------- a sweep beside /set_discount_threshold
\* the apps the catalog can answer a fetch of the sweep with
FoundAnswers == {OkRes(<<a>>) : a \in SteamApps}

\* Guild 1 has its record and tracks app 1 with one junction, with a
\* sale_threshold of its own or without; the loop task sleeps until the
\* next sweep.
InitOverride ==
    /\ discord = {NewDiscord(1, 100)}
    /\ junction \in {{NewJunction(1, 1, 1, [coming_soon |-> cs], th)} :
                       cs \in BOOLEAN, th \in ThresholdArgs}
    /\ apps = {1}
    /\ nextId = 2
    /\ AtRest

\* the sweeps, with every fetch answered by an app, and a user of guild 1
\* who sets the threshold of app 1
NextOverride ==
    \/ Wake(1)
    \/ OrphansFind(1)
    \/ OrphansDelete(1)
    \/ GetAppIds(1)
    \/ NextApp(1)
    \/ \E r \in FoundAnswers : AppDetails(1, r)
    \/ GotApp(1)
    \/ GetJunctions(1)
    \/ \E f \in futs[1] : FutDiscord(1, f)
    \/ \E f \in futs[1] : FutReleased(1, f)
    \/ \E f \in futs[1] : FutSale(1, f)
    \/ \E f \in futs[1] : FutUpdate(1, f)
    \/ \E f \in futs[1] : FutRemove(1, f)
    \/ ForEachDone(1)
    \/ \E th \in RepoThresholds : ThresholdsFind(1, 1, th, {1})
    \/ ThresholdsNext(1)
    \/ ThresholdsReturn(1)

SpecOverride == InitOverride /\ [][NextOverride]_vars

\* ------------------------------------- a sweep beside the removal commands
\* Both guilds have their record and app 1, the one app with a row, is
\* tracked by any of them; check_apps has just been entered.
InitRemoval ==
    /\ discord = {NewDiscord(g, 100) : g \in RepoGuilds}
    /\ \E f \in [SweepPairs -> {"none", "soon", "released"}] :
           /\ f[<<2, 1>>] = "none"
           /\ junction = SweepJunctions(f)
    /\ apps = {1}
    /\ nextId = MaxApps * MaxRepoGuilds + 1
    /\ LoopAt("orphans_find")

\* the sweep, with every fetch answered by an app, while guild 1 removes
\* app 1, clears its apps or removes the bot
NextRemoval ==
    \/ OrphansFind(1)
    \/ OrphansDelete(1)
    \/ GetAppIds(1)
    \/ NextApp(1)
    \/ \E r \in FoundAnswers : AppDetails(1, r)
    \/ GotApp(1)
    \/ GetJunctions(1)
    \/ \E f \in futs[1] : FutDiscord(1, f)
    \/ \E f \in futs[1] : FutReleased(1, f)
    \/ \E f \in futs[1] : FutSale(1, f)
    \/ \E f \in futs[1] : FutUpdate(1, f)
    \/ \E f \in futs[1] : FutRemove(1, f)
    \/ ForEachDone(1)
    \/ RemoveApps(1, {1})
    \/ ClearApps(1)
    \/ GuildDelete(1, 1, FALSE)
    \/ RemoveGuild(1)
    \/ RemoveClear(1)
    \/ RemoveCommit(1)

SpecRemoval == InitRemoval /\ [][NextRemoval]_vars

\* ------------------------------------ get_discord, one await at a time
\* notify_guild from the Discord record on: serenity::ChannelId::new
\* panics on 0, which ends the loop task
UseDiscord(t, f, d) ==
    IF d.channel_id = 0
    THEN /\ pc' = [pc EXCEPT ![t] = "dead"]
         /\ futs' = [futs EXCEPT ![t] = {}]
    ELSE /\ pc' = pc
         /\ SetFut(t, f, AfterDiscord(f, d, App(t)))

\* cache_insert with a slip: the last value inserted for a key wins
cache_insert_Replace(c, d) ==
    {e \in c : e.server_id # d.server_id} \cup {d}

\* OnceMap::insert: the value of a key that is present stays
cache_insert(c, d) ==
    IF \E e \in c : e.server_id = d.server_id THEN c ELSE c \cup {d}

\* get_discord up to the end of its find_one: a cached record is used at
\* once; otherwise the record is read from the collection as it is now (a
\* failed read and a missing record end the future) and the future holds
\* it in d until it is polled again
FutGetGuild(t, f) ==
    /\ pc[t] = "for_each"
    /\ f \in futs[t]
    /\ f.st = "discord"
    /\ LET hit == {d \in cache[t] : d.server_id = f.j.server_id}
           found == get_guild(discord, f.j.server_id)
       IN IF hit # {}
          THEN \E d \in hit : UseDiscord(t, f, d)
          ELSE /\ pc' = pc
               /\ \/ SetFut(t, f, End(f, "repo_err"))
                  \/ \E d \in found :
                        SetFut(t, f, [f EXCEPT !.st = "insert", !.d = <<d>>])
    /\ UNCHANGED <<dbVars, readyCount, readyLeft, auxVars, ids, orphans, cur,
                   app_res, tries, cache, result, obs, hist>>

\* the rest of get_discord: discord_cache.insert, whose return value is
\* the record notify_guild goes on with
FutCacheInsert(t, f) ==
    /\ pc[t] = "for_each"
    /\ f \in futs[t]
    /\ f.st = "insert"
    /\ cache' = [cache EXCEPT ![t] = cache_insert(cache[t], f.d[1])]
    /\ \E d \in cache'[t] :
          /\ d.server_id = f.j.server_id
          /\ UseDiscord(t, f, d)
    /\ UNCHANGED <<dbVars, readyCount, readyLeft, auxVars, ids, orphans, cur,
                   app_res, tries, result, obs, hist>>

\* DiscordRepo::set_threshold: update_one with `$set` of sale_threshold on
\* the record of the guild
set_threshold(coll, guild_id, threshold) ==
    {IF d.server_id = guild_id THEN [d EXCEPT !.sale_threshold = threshold]
     ELSE d : d \in coll}

\* /set_discount_threshold without appids: set_guild_threshold
SetGuildThreshold(g, threshold) ==
    /\ \/ /\ discord' = set_threshold(discord, g, threshold)
          /\ done' = [op |-> "set_threshold", ok |-> TRUE, g |-> g,
                      th |-> threshold]
       \/ /\ discord' = discord
          /\ done' = [op |-> "set_threshold", ok |-> FALSE, g |-> g,
                      th |-> threshold]
    /\ UNCHANGED <<junction, apps, nextId, progVars, app_names, now, sched,
                   sess>>

\* the one answer of the catalog in SpecCache: a priced app, 10% off
CacheAnswers ==
    {OkRes(<<[coming_soon |-> FALSE, is_free |-> FALSE,
              price_overview |-> <<10>>]>>)}

\* Guild 1 has its record and tracks both apps, app 1 with two junction
\* documents (what two concurrent adds leave behind, there being no
\* unique index); the loop task sleeps until the next sweep.
InitCache ==
    /\ discord = {NewDiscord(1, 100)}
    /\ junction = {NewJunction(i, IF i = 3 THEN 2 ELSE 1, 1,
                               [coming_soon |-> FALSE], <<>>) : i \in 1..3}
    /\ apps = AppIds
    /\ nextId = 4
    /\ AtRest

\* the sweeps, while a user of guild 1 sets the guild's threshold
NextCache ==
    \/ Wake(1)
    \/ OrphansFind(1)
    \/ OrphansDelete(1)
    \/ GetAppIds(1)
    \/ NextApp(1)
    \/ \E r \in CacheAnswers : AppDetails(1, r)
    \/ GotApp(1)
    \/ GetJunctions(1)
    \/ \E f \in futs[1] : FutGetGuild(1, f)
    \/ \E f \in futs[1] : FutCacheInsert(1, f)
    \/ \E f \in futs[1] : FutSale(1, f)
    \/ \E f \in futs[1] : FutUpdate(1, f)
    \/ ForEachDone(1)
    \/ \E th \in {5, 20} : SetGuildThreshold(1, th)

SpecCache == InitCache /\ [][NextCache]_vars

\* ------------------------------------------- the thresholds that get stored
\* values a user may try as the threshold argument of a command
ThresholdInputs == {0, 1, 99, 100}

\* ValidThreshold with a slip: the option has no `min` and no `max`
ValidThreshold_Any(threshold) == TRUE

\* `#[min = 1] #[max = 99]`: the values of the integer option for which
\* the command is invoked
ValidThreshold(threshold) == threshold >= 1 /\ threshold <= 99

\* DiscordRepo::set_channel_id: update_one with `$set` of channel_id on the
\* record of the guild
set_channel_id(coll, guild_id, channel_id) ==
    {IF d.server_id = guild_id THEN [d EXCEPT !.channel_id = channel_id]
     ELSE d : d \in coll}

\* /bind to a text channel the bot can use: add_guild, then set_channel_id,
\* each followed by `?`
Bind(g, ch) ==
    /\ \/ discord' = set_channel_id(
                         add_guild_if_not_exists(discord, g, ch), g, ch)
       \/ discord' = add_guild_if_not_exists(discord, g, ch)
       \/ discord' = discord
    /\ done' = [op |-> "bind", g |-> g, ch |-> ch]
    /\ UNCHANGED <<junction, apps, nextId, progVars, app_names, now, sched,
                   sess>>

\* /set_discount_threshold: set_apps_thresholds when appids is given (an
\* Option, here a sequence), set_guild_threshold otherwise
SetDiscountThreshold(s, g, threshold, app_ids) ==
    /\ ValidThreshold(threshold)
    /\ IF app_ids = <<>>
       THEN SetGuildThreshold(g, threshold)
       ELSE ThresholdsFind(s, g, threshold, app_ids[1])

\* The bot is connected, the collections are empty and the loop task
\* sleeps until the next sweep.
InitRange ==
    /\ discord = {} /\ junction = {} /\ apps = {} /\ nextId = 1
    /\ AtRest

\* guild 1 is created and bound, its users add app 1 and set thresholds
\* with any value they can try, and the sweeps run
NextRange ==
    \/ AddGuild(1, 100)
    \/ Bind(1, 100)
    \/ \E th \in ThresholdInputs, l \in {<<>>, <<{1}>>} :
          SetDiscountThreshold(1, 1, th, l)
    \/ ThresholdsNext(1)
    \/ ThresholdsReturn(1)
    \/ \E th \in {<<>>} \cup {<<x>> : x \in ThresholdInputs} :
          /\ th # <<>> => ValidThreshold(th[1])
          /\ AddBegin(1, 1, 1, FALSE, th)
    \/ SearchBegin(1, 1, 1, FALSE)
    \/ TxJunction(1)
    \/ TxApps(1)
    \/ TxCommit(1)
    \/ Wake(1)
    \/ OrphansFind(1)
    \/ OrphansDelete(1)
    \/ GetAppIds(1)
    \/ NextApp(1)
    \/ \E r \in CacheAnswers : AppDetails(1, r)
    \/ GotApp(1)
    \/ GetJunctions(1)
    \/ \E f \in futs[1] : FutDiscord(1, f)
    \/ \E f \in futs[1] : FutSale(1, f)
    \/ \E f \in futs[1] : FutUpdate(1, f)
    \/ ForEachDone(1)

SpecRange == InitRange /\ [][NextRange]_vars

\* ================================================================ claims
\* a loop task is inside check_apps
InSweep(t) == pc[t] \notin {"unborn", "sleep", "dead"}

\* the ended futures whose evaluation no repository error cut short
Evaluated(t) ==
    {f \in futs[t] : f.st = "end" /\ f.out \in {"ok", "send_err", "removed"}}

\* C1: over the sweeps of one link, a sweep that starts with
\* is_trailing_sale_day = true and still sees a discount >= the threshold
\* attempts no "sale" notification, and the first sweep that sees a
\* discount >= the threshold after a sweep that saw it below attempts
\* exactly one.
C1_SaleOncePerDiscount ==
    \A t \in Tasks : \A f \in Evaluated(t) :
        IsSignificantDiscount(f.j, f.d[1], App(t)) =>
            /\ f.j.is_trailing_sale_day => f.sales = 0
            /\ f.prev = "below" => f.sales = 1

\* C2: once the item of a link has gone from coming soon to released,
\* exactly one "released" notification is delivered for the link over all
\* sweeps, and an evaluation that ends well leaves coming_soon = false in
\* the stored link.
C2_ReleasedOnce ==
    /\ \A l \in Links : hist[l].rel <= 1
    /\ \A t \in Tasks : \A f \in Evaluated(t) :
           f.out = "ok" /\ f.rels = 1 =>
               \A x \in junction : x.id = f.j.id => ~x.coming_soon

\* C3: when a "released" or "sale" send fails, the stored link still gets
\* coming_soon = fetched coming_soon and is_trailing_sale_day = significant
\* discount in that sweep.
C3_SendFailureStillPersists ==
    \A t \in Tasks : \A f \in futs[t] :
        f.out = "send_err" =>
            \A x \in junction : x.id = f.j.id =>
                /\ x.coming_soon = App(t).coming_soon
                /\ x.is_trailing_sale_day =
                       IsSignificantDiscount(f.j, f.d[1], App(t))

\* C4: get_app calls the catalog at most 6 times for one item in one sweep
\* (the first attempt and at most MAX_TRIES retries).
C4_AtMostSixCalls ==
    \A t \in Tasks : obs[t].calls <= MAX_TRIES + 1

\* C5: after 6 consecutive rate-limit answers (the first attempt and
\* MAX_TRIES retries) the item is skipped: the warning is logged and the
\* item's links are not enumerated.
C5_SkippedAfterSixRateLimits ==
    \A t \in Tasks :
        obs[t].rl >= MAX_TRIES + 1 =>
            /\ pc[t] # "get_junctions"
            /\ pc[t] = "got_app" => obs[t].warned /\ ~Found(app_res[t])

\* C6: when the catalog rate-limits the first k fetches and answers the
\* k-th retry with the app, k <= MAX_TRIES, get_app returns that app after
\* k + 1 calls and logs no retry-exhaustion warning, so the item goes on to
\* the evaluation of its links as after a first-attempt success.
C6_RetrySuccessWithinCap ==
    \A t \in Tasks :
        /\ pc[t] \in {"got_app", "get_junctions"}
        /\ obs[t].rl \in 1..MAX_TRIES
        /\ Found(obs[t].last)
        => /\ app_res[t] = obs[t].last
           /\ ~obs[t].warned
           /\ obs[t].calls = obs[t].rl + 1

\* C6 witness: rate-limited five times, the fifth retry brought the app,
\* no warning, and check_apps is about to enumerate the links.
C6_Witness ==
    \E t \in Tasks :
        /\ pc[t] = "get_junctions"
        /\ obs[t].rl = MAX_TRIES
        /\ obs[t].calls = MAX_TRIES + 1
        /\ ~obs[t].warned

\* C7: get_app sleeps and fetches again only after a rate-limit answer;
\* the first answer that is not a rate-limit error (another error, not
\* found, or the app) ends the fetching with no sleep after it and is what
\* get_app returns.
C7_RetryOnlyOnRateLimit ==
    \A t \in Tasks :
        /\ pc[t] \in {"backoff", "retry"} => RateLimited(app_res[t])
        /\ pc[t] = "got_app" => app_res[t] = obs[t].last
        /\ pc[t] = "got_app" /\ ~RateLimited(app_res[t]) =>
               /\ obs[t].calls = obs[t].rl + 1
               /\ obs[t].sleeps = obs[t].rl

\* C7 witness: a retry was answered with an error that is not a rate limit
\* and get_app has returned it.
C7_Witness ==
    \E t \in Tasks :
        /\ pc[t] = "got_app"
        /\ app_res[t] = ErrRes(FALSE)
        /\ obs[t].rl >= 1

\* C8: a repository failure while one item is processed abandons that item
\* only: when check_apps returns, every app id it enumerated has been
\* visited.
C8_ItemFailureIsolated ==
    \A t \in Tasks : pc[t] = "sleep" => ids[t] = {}

\* C9: the scheduler loop never stops.
C9_LoopNeverStops ==
    \A t \in Tasks : pc[t] # "dead"

\* C10: at most one sweep is in progress at any time, however often the
\* Ready handler runs.
C10_OneSweepAtATime ==
    Cardinality({t \in Tasks : InSweep(t)}) <= 1

\* C11: the next fire time is today at HOUR:00 when now is strictly before
\* it and tomorrow at HOUR:00 otherwise, also when now is today's fire time
\* exactly; the wait is greater than 0 and at most 24 hours.
C11_NextFire ==
    sched.pc = "sleep" =>
        /\ sched.deadline % HoursPerDay = HOUR
        /\ Day(sched.deadline) =
               IF sched.at % HoursPerDay < HOUR
               THEN Day(sched.at) ELSE Day(sched.at) + 1
        /\ sched.deadline - sched.at > 0
        /\ sched.deadline - sched.at <= HoursPerDay

\* C11 witness: checking_time was called at HOUR:00 exactly and the loop
\* sleeps for 24 hours.
C11_Witness ==
    /\ sched.pc = "sleep"
    /\ sched.at % HoursPerDay = HOUR
    /\ sched.deadline = sched.at + HoursPerDay

\* C12: two sweeps of one loop never start on the same calendar day,
\* however long a sweep lasts, and a sweep starts no earlier than the
\* HOUR:00 fire time computed after the previous sweep returned.
C12_OneSweepPerDay ==
    /\ sched.pc = "sleep" =>
           /\ sched.at >= sched.returned
           /\ sched.deadline > sched.returned
    /\ sched.pc = "sweep" =>
           /\ sched.start >= sched.deadline
           /\ sched.deadline % HoursPerDay = HOUR
           /\ sched.prevDay < sched.lastDay
           /\ sched.lastDay = Day(sched.start)

\* C12 witness: a sweep that lasted more than 24 hours has returned and
\* the next sweep has started.
C12_Witness ==
    /\ sched.pc = "sweep"
    /\ sched.prevDay >= 0
    /\ sched.long

\* C13: there is at most one junction for each (app_id, server_id) pair,
\* whatever the interleaving of the commands and handlers.
C13_LinkUnique ==
    \A x \in junction : \A y \in junction :
        x.app_id = y.app_id /\ x.server_id = y.server_id => x = y

\* C14: an add whose (app_id, server_id) already has a junction changes no
\* field of that junction and adds no row, also when the new values
\* differ.
C14_InsertIfAbsent ==
    [][\A s \in Sessions :
          /\ (/\ sess[s].op = "add" /\ sess[s].st = "junction"
              /\ sess'[s].op = "add" /\ sess'[s].st = "apps"
              /\ LinksOf(junction, sess[s].j.app_id,
                         sess[s].j.server_id) # {})
             => sess'[s].ins = {} /\ junction' = junction
          /\ (/\ sess[s].op = "add" /\ sess[s].st = "commit"
              /\ sess[s].ins = {} /\ sess'[s].op = "none")
             => junction' = junction]_vars

\* C14 witness: the upsert of an add found a junction of its pair with
\* another coming_soon or another threshold and staged nothing.
C14_Witness ==
    \E s \in Sessions :
        /\ sess[s].op = "add" /\ sess[s].st = "apps" /\ sess[s].ins = {}
        /\ \E x \in LinksOf(junction, sess[s].j.app_id, sess[s].j.server_id) :
               /\ x.coming_soon # sess[s].j.coming_soon
               /\ x.sale_threshold # sess[s].j.sale_threshold

\* C15: add_guild_if_not_exists leaves an existing record of the guild as
\* it is and returns Ok, also for another channel id; for a guild with no
\* record it inserts exactly one, with the channel id given and the default
\* threshold.
C15_AddGuildNeverOverwrites ==
    done.op = "add_guild" =>
        LET before == GuildConfigs(done.pre, done.g)
        IN /\ before # {} => discord = done.pre
           /\ ~done.ok => discord = done.pre
           /\ before = {} /\ done.ok =>
                  discord = done.pre \cup
                      {[server_id |-> done.g, channel_id |-> done.ch,
                        sale_threshold |-> DEFAULT_SALE_THRESHOLD]}

\* C15 witness: the call returned Ok for a guild whose record names
\* another channel.
C15_Witness ==
    /\ done.op = "add_guild" /\ done.ok
    /\ \E d \in GuildConfigs(done.pre, done.g) : d.channel_id # done.ch

\* C16: remove_orphans, with no other writer, deletes exactly the apps rows
\* that no junction refers to: after a delete that went through every such
\* row is gone and every row a junction refers to is kept.
C16_OnlyOrphansDeleted ==
    [][\A t \in Tasks :
          pc[t] = "orphans_delete" /\ pc'[t] # "orphans_delete" =>
              \/ apps' = apps
              \/ \A a \in apps :
                     a \in apps' <=> \E j \in junction : j.app_id = a]_vars

\* C16 witness: remove_orphans has returned, a row is gone, and the rows
\* left are those, and only those, that a junction refers to.
C16_Witness ==
    /\ pc[1] = "get_app_ids"
    /\ apps # {} /\ apps # AppIds
    /\ \A a \in AppIds : a \in apps <=> \E j \in junction : j.app_id = a

\* C17: set_thresholds returns exactly the requested ids whose junction in
\* the guild was not updated (no junction, or its read or update failed),
\* and every requested id it does not return has its junction's
\* sale_threshold equal to the threshold afterwards. (No other task wrote
\* the collection during the call.)
C17_ThresholdsReturn ==
    done.op = "set_thresholds" /\ done.clean =>
        /\ done.ret \subseteq done.ids
        /\ \A i \in done.ids \ done.ret :
               /\ LinksOf(junction, i, done.g) # {}
               /\ \A x \in LinksOf(junction, i, done.g) :
                      x.sale_threshold = <<done.th>>
        /\ \A i \in done.ret :
               LinksOf(junction, i, done.g) = {} \/ i \in done.faults
        /\ \A i \in done.ids :
               LinksOf(junction, i, done.g) = {} => i \in done.ret

\* C18: set_thresholds leaves every junction of another guild and every
\* junction of the guild whose app_id is not requested as it is, and
\* changes only sale_threshold on the others.
C18_ThresholdsFrame ==
    [][\A s \in Sessions :
          /\ sess'[s] # sess[s]
          /\ sess[s].op = "set_thresholds" \/ sess'[s].op = "set_thresholds"
          => LET r == IF sess[s].op = "set_thresholds"
                      THEN sess[s] ELSE sess'[s]
             IN /\ Cardinality(junction') = Cardinality(junction)
                /\ \A x \in junction :
                      \/ x \in junction'
                      \/ /\ x.server_id = r.g
                         /\ x.app_id \in r.ids
                         /\ [x EXCEPT !.sale_threshold = <<r.th>>]
                                \in junction']_vars

\* C18 witness: the call has updated the junction of its guild while
\* another guild's junction of the same app keeps another threshold.
C18_Witness ==
    /\ done.op = "set_thresholds" /\ done.ret = {}
    /\ \E x \in junction :
           /\ x.server_id # done.g /\ x.app_id \in done.ids
           /\ x.sale_threshold # <<done.th>>
    /\ \E y \in GuildLinks(junction, done.g) :
           y.app_id \in done.ids /\ y.sale_threshold = <<done.th>>

C20_AddAllOrNothing ==
    /\ [](\A x \in junction : x.app_id \in apps)
    /\ [][\A s \in Sessions :
             sess[s].op = "add" /\ sess'[s] # sess[s] =>
                 \/ junction' = junction /\ apps' = apps
                 \/ /\ sess[s].st = "commit"
                    /\ sess[s].j.app_id \in apps'
                    /\ LinksOf(junction', sess[s].j.app_id,
                               sess[s].j.server_id) # {}]_vars

\* C20 witness: the commit of an add with a staged junction failed, and
\* neither the junction nor the apps row is there.
C20_Witness ==
    /\ done.op = "add" /\ ~done.ok
    /\ done.was.st = "commit" /\ done.was.ins # {}
    /\ LinksOf(junction, done.was.j.app_id, done.was.j.server_id) = {}
    /\ done.was.j.app_id \notin apps

\* C21: every junction's app_id has its row in the apps collection,
\* whatever the interleaving of adds with the remove_orphans of a sweep.
C21_LinkHasCacheRow ==
    \A x \in junction : x.app_id \in apps

\* C22: once the sweep has evaluated a junction whose fetched app is free
\* and released (no repository error cut the evaluation short), the
\* junction is gone; and a junction leaves the collection only in the
\* remove_junction of its own evaluation.
C22_FreeLinkRemoved ==
    /\ [](\A f \in futs[1] :
            /\ f.st = "end" /\ f.out \in {"send_err", "removed"}
            /\ IsFreeAndReleased(App(1))
            => ~\E x \in junction : x.id = f.j.id)
    /\ [][\A x \in junction :
             x.id \notin {y.id : y \in junction'} =>
             \E f \in futs[1] :
                 /\ f.st = "remove" /\ f.j.id = x.id
                 /\ IsFreeAndReleased(App(1))]_vars

\* the guild of a future's junction has no record in the discord collection
NoConfig(f) == ~\E d \in discord : d.server_id = f.j.server_id

\* C23: the sweep skips a junction whose guild has no Discord record: it
\* attempts no notification for it, leaves the junction as it is in the
\* collection, and the step that gives the junction up leaves check_apps
\* running with the other futures and the remaining app ids untouched.
C23_MissingConfigSkipped ==
    /\ [](\A f \in futs[1] :
            NoConfig(f) =>
                /\ f.rels = 0 /\ f.sales = 0
                /\ f.st \in {"discord", "end"}
                /\ f.j \in junction
                /\ pc[1] = "for_each")
    /\ [][\A f \in futs[1] :
             NoConfig(f) /\ f.st = "discord" /\ f \notin futs'[1] =>
                 /\ pc'[1] = "for_each"
                 /\ \E g \in futs'[1] :
                        /\ g.j = f.j /\ g.st = "end"
                        /\ futs'[1] \ {g} = futs[1] \ {f}
                 /\ ids' = ids /\ result' = result
                 /\ junction' = junction]_vars

\* C23 witness: every future of the app has ended; the one whose guild has
\* no record was given up, its sibling delivered a "released" notification
\* and ended well, and another app is still to be visited.
C23_Witness ==
    /\ pc[1] = "for_each"
    /\ ids[1] # {}
    /\ \E f \in futs[1] : NoConfig(f) /\ f.st = "end" /\ f.out = "repo_err"
    /\ \E g \in futs[1] : ~NoConfig(g) /\ g.out = "ok" /\ g.rels = 1

\* the Discord record of the guild of a future's junction
ConfigOf(f) == CHOOSE d \in discord : d.server_id = f.j.server_id

\* C24: within one app's for_each_concurrent a future that fails (missing
\* record, failed send, failed update, unreadable junction) changes nothing
\* for its siblings: every junction of the app keeps its future, and a
\* future that met no failure of its own has attempted exactly the
\* notifications its own junction calls for and left its own junction
\* updated, or removed, as if it were alone.
C24_SiblingsIndependent ==
    pc[1] = "for_each" =>
        /\ \A x \in junction :
               x.app_id = cur[1] => \E f \in futs[1] : f.j.id = x.id
        /\ \A g \in futs[1] :
               g.st = "end" /\ g.out \in {"ok", "removed"} =>
                   /\ g.rels = IF IsReleased(g.j, App(1)) THEN 1 ELSE 0
                   /\ g.sales = IF IsSale(g.j, ConfigOf(g), App(1))
                                THEN 1 ELSE 0
                   /\ g.out = "ok" =>
                          Snapshot(g.j, ConfigOf(g), App(1)) \in junction
                   /\ g.out = "removed" =>
                          ~\E x \in junction : x.id = g.j.id

\* C24 witness: every future of the app has ended, one of them on a failed
\* send or an unreadable junction, while its sibling attempted its
\* notification and ended well.
C24_Witness ==
    /\ pc[1] = "for_each"
    /\ \A f \in futs[1] : f.st = "end"
    /\ \E f \in futs[1] : f.out \in {"send_err", "read_err"}
    /\ \E g \in futs[1] :
           g.out = "ok" /\ g.rels + g.sales > 0

\* C25: in one evaluation whose guild record was resolved, the "released"
\* notification is attempted exactly when the junction was coming soon
\* and the app no longer is, and the "sale" notification exactly when the
\* discount is significant and is_trailing_sale_day is false, each
\* whatever became of the other.
C25_NotificationsIndependent ==
    \A f \in futs[1] :
        f.st = "end" /\ f.d # <<>> =>
            /\ f.rels = IF IsReleased(f.j, App(1)) THEN 1 ELSE 0
            /\ f.sales = IF IsSale(f.j, f.d[1], App(1)) THEN 1 ELSE 0

\* the threshold a junction is held to: its own sale_threshold when it
\* has one, the guild's otherwise
EffectiveThreshold(j, d) ==
    IF j.sale_threshold # <<>> THEN j.sale_threshold[1] ELSE d.sale_threshold

\* C26: an evaluation whose guild record was resolved attempts a "sale"
\* notification if and only if the fetched app has a price_overview, its
\* discount_percent is at least the effective threshold and the junction's
\* is_trailing_sale_day is false; never without a price_overview.
C26_SaleIffSignificant ==
    \A t \in Tasks : \A f \in futs[t] :
        f.st = "end" /\ f.d # <<>> =>
            /\ f.sales <= 1
            /\ f.sales = 1 <=>
                   /\ App(t).price_overview # <<>>
                   /\ App(t).price_overview[1] >=
                          EffectiveThreshold(f.j, f.d[1])
                   /\ ~f.j.is_trailing_sale_day

\* C27: once notify_guild has returned Ok, the stored junction has
\* coming_soon equal to the fetched app's and is_trailing_sale_day equal to
\* "the app has a price_overview whose discount_percent is at least the
\* effective threshold", whether or not a notification was attempted.
C27_SnapshotPersisted ==
    \A f \in futs[1] :
        f.st = "remove" \/ (f.st = "end" /\ f.out = "ok") =>
            \E x \in junction :
                /\ x.id = f.j.id
                /\ x.coming_soon = App(1).coming_soon
                /\ x.is_trailing_sale_day =
                       (/\ App(1).price_overview # <<>>
                        /\ App(1).price_overview[1] >=
                               EffectiveThreshold(f.j, f.d[1]))

\* C27 witness: an evaluation that attempted no notification has ended
\* well and reset is_trailing_sale_day, which the junction had set.
C27_Witness ==
    \E f \in futs[1] :
        /\ f.st = "end" /\ f.out = "ok"
        /\ f.rels = 0 /\ f.sales = 0
        /\ f.j.is_trailing_sale_day
        /\ \E x \in junction : x.id = f.j.id /\ ~x.is_trailing_sale_day

\* C28: when get_app returns Ok(None) or an error, check_apps neither
\* enumerates nor touches the junctions of the app, leaves its apps row,
\* attempts no notification and goes on with the app ids that are left;
\* no step of the fetch writes to a collection either.
C28_FetchFailureSkipsItem ==
    [][/\ pc[1] \in {"app_details", "backoff", "retry", "got_app"} =>
              /\ junction' = junction /\ apps' = apps /\ discord' = discord
              /\ futs' = futs /\ hist' = hist
       /\ pc[1] = "got_app" /\ ~Found(app_res[1]) =>
              /\ pc'[1] = "next_app"
              /\ ids' = ids /\ result' = result
       /\ pc[1] = "next_app" /\ ids[1] # {} =>
              /\ pc'[1] = "app_details"
              /\ cur'[1] \in ids[1]]_vars

\* C28 witness: the fetch of one app ended on a rate-limit error after the
\* retries, and check_apps is about to fetch the next app while a junction
\* of the first is still in the collection.
C28_Witness ==
    /\ pc[1] = "app_details"
    /\ app_res[1] = ErrRes(TRUE)
    /\ cur[1] \in apps
    /\ \E x \in junction : x.app_id # cur[1] /\ x.app_id \in apps

\* C29: a failure of remove_orphans, in its aggregate or in its delete,
\* does not end check_apps: the next step is get_app_ids, nothing is
\* returned to the loop, and the ids then enumerated are all the rows of
\* the apps collection, each of which the for loop goes on to fetch.
C29_PruneFailureKeepsSweep ==
    [][/\ pc[1] = "orphans_find" =>
              /\ pc'[1] \in {"orphans_delete", "get_app_ids"}
              /\ result' = result /\ apps' = apps
       /\ pc[1] = "orphans_delete" =>
              /\ pc'[1] = "get_app_ids"
              /\ result' = result
              /\ apps' \in {apps, apps \ orphans[1]}
       /\ pc[1] = "get_app_ids" /\ pc'[1] # "sleep" =>
              pc'[1] = "next_app" /\ ids'[1] = apps]_vars

\* C29 witness: the sweep is fetching an app that no junction refers to,
\* a row that only a failed remove_orphans can have left behind.
C29_Witness ==
    /\ pc[1] = "app_details"
    /\ cur[1] \in apps
    /\ ~\E x \in junction : x.app_id = cur[1]

\* the listing get_app_listings owes to junction j
ListingOf(j) ==
    [app_id |-> j.app_id, app_name |-> app_names[j.app_id],
     sale_threshold |-> j.sale_threshold]

\* C30: get_app_listings(guild_id), with every document of the stream
\* readable, returns Ok with exactly one listing for each junction of the
\* guild whose app has a row in apps, made of the row's app_id and
\* app_name and the junction's sale_threshold; junctions of other guilds
\* and junctions whose app has no row add nothing and raise no error.
C30_ListingsJoin ==
    done.op = "get_app_listings" /\ done.ok /\ done.bad = {} =>
        LET want == {j \in junction :
                        j.server_id = done.g /\ j.app_id \in apps}
        IN /\ Len(done.ret) = Cardinality(want)
           /\ \A j \in want :
                  \E i \in 1..Len(done.ret) : done.ret[i] = ListingOf(j)
           /\ \A i \in 1..Len(done.ret) :
                  \E j \in want : done.ret[i] = ListingOf(j)

\* C30 witness: the call returned one listing, with a renamed row's name
\* and the junction's own threshold, while the guild has another junction
\* whose app has no row and the other guild tracks the listed app too.
C30_Witness ==
    /\ done.op = "get_app_listings" /\ done.ok /\ done.bad = {}
    /\ Len(done.ret) = 1
    /\ done.ret[1].app_name = "renamed"
    /\ done.ret[1].sale_threshold # <<>>
    /\ \E j \in junction : j.server_id = done.g /\ j.app_id \notin apps
    /\ \E j \in junction :
           j.server_id # done.g /\ j.app_id = done.ret[1].app_id

\* C35: the retry-exhaustion warning is logged only when the item is
\* abandoned: whenever get_app has logged "No longer retrying" for an
\* item, what it returns is still a rate-limit error and check_apps does
\* not go on to the item's junctions.
C35_WarningOnlyWhenAbandoned ==
    \A t \in Tasks :
        obs[t].warned =>
            /\ pc[t] = "got_app" => RateLimited(app_res[t])
            /\ pc[t] # "get_junctions"

\* C40: a junction whose Discord record has channel_id 0 is an ordinary
\* logged failure of that junction: a loop task whose sweep has resolved
\* such a record is still running its sweep or sleeping until the next
\* one; it has not ended.
C40_ChannelZeroIsLinkFailure ==
    \A t \in Tasks :
        (\E d \in cache[t] : d.channel_id = 0) =>
            InSweep(t) \/ pc[t] = "sleep"

\* C31: in every state reached through guild creation, /bind,
\* /set_discount_threshold, /add_apps, /search and the sweeps, the
\* sale_threshold of every Discord record is in 1..99 and the
\* sale_threshold of every junction, when it has one, is in 1..99.
C31_ThresholdsInRange ==
    /\ \A d \in discord : d.sale_threshold \in 1..99
    /\ \A j \in junction :
           j.sale_threshold # <<>> => j.sale_threshold[1] \in 1..99

\* C31 witness: the guild's threshold is at the upper end of the range,
\* and a junction with a threshold at the lower end has been through the
\* update_junction of a sweep, which found its app on sale.
C31_Witness ==
    /\ \E d \in discord : d.sale_threshold = 99
    /\ \E j \in junction :
           j.sale_threshold = <<1>> /\ j.is_trailing_sale_day

\* C32: a sweep changes only the snapshot fields of a junction: however a
\* sweep and a set_thresholds call on the same junction interleave, once
\* the sweep has returned and the call has returned with the app updated,
\* the junction's sale_threshold is the value the call wrote.
C32_SweepKeepsThreshold ==
    /\ pc[1] = "sleep"
    /\ done.op = "set_thresholds"
    /\ 1 \notin done.ret
    => \A x \in junction : x.sale_threshold = <<done.th>>

\* C33: within one sweep every junction of a guild is evaluated against
\* the same Discord record: the cache holds one record for a guild, a
\* record once cached stays as it is until check_apps returns, whichever
\* future inserts first and whatever a command stores meanwhile, and every
\* evaluation uses the cached record; the cache is empty when a sweep
\* starts and is filled only with what a future of this sweep read from
\* the collection, so a change made between two sweeps is what the later
\* sweep uses.
C33_ConfigFixedPerSweep ==
    /\ [](/\ \A d, e \in cache[1] : d.server_id = e.server_id => d = e
          /\ \A f \in futs[1] :
                 f.st \notin {"discord", "insert"} /\ f.d # <<>> =>
                     f.d[1] \in cache[1])
    /\ [][/\ pc[1] = "sleep" /\ pc'[1] # "sleep" => cache'[1] = {}
          /\ pc[1] # "sleep" => cache[1] \subseteq cache'[1]
          /\ \A d \in cache'[1] \ cache[1] :
                 \E f \in futs[1] : f.st = "insert" /\ f.d[1] = d
          /\ \A f \in futs'[1] \ futs[1] :
                 f.st = "insert" => f.d[1] \in discord]_vars

\* C33 witness: two futures of one guild raced for the cache; one goes on
\* with the cached record, which the collection no longer holds, while
\* the other still has to insert the different record it read.
C33_Witness ==
    \E f, h \in futs[1] :
        /\ f.st = "insert"
        /\ h.st \in {"sale", "update"}
        /\ h.d[1] \in cache[1]
        /\ h.d[1] \notin discord
        /\ f.d[1] # h.d[1]

\* C34: every sweep terminates: with every await returning, check_apps
\* reaches its return (the loop task is back at its sleep) whatever the
\* catalog answers, a rate-limit error to every fetch included, because
\* get_app sleeps and fetches a bounded number of times for each app.
C34_SweepTerminates == <>(pc[1] = "sleep")

\* C34 witness: check_apps has returned Ok after an app whose every fetch,
\* the first and all the retries, was answered with a rate-limit error.
C34_Witness ==
    /\ pc[1] = "sleep"
    /\ result[1] = "ok"
    /\ obs[1].warned
    /\ obs[1].rl = obs[1].calls
    /\ obs[1].calls > MAX_TRIES

\* C37: a guild_delete event that only marks the guild unavailable changes
\* nothing: the discord, junction and apps collections stay as they were
\* and no transaction is started.
C37_OutageChangesNothing ==
    [][done'.op = "guild_delete" /\ done'.unavailable =>
           /\ discord' = discord /\ junction' = junction /\ apps' = apps
           /\ sess' = sess]_vars

\* C37 witness: the last event was an outage of a guild that has its
\* Discord record and a junction, and no removal is under way.
C37_Witness ==
    /\ done.op = "guild_delete" /\ done.unavailable
    /\ GuildConfigs(discord, done.g) # {}
    /\ GuildLinks(junction, done.g) # {}
    /\ \A s \in Sessions : Idle(s)

\* C36: a sweep never re-creates a junction: no step brings a junction
\* back, the sweep's update_junction of a junction that was removed after
\* the sweep read it changes nothing, and the sweep's remove_junction
\* deletes at most one document, of the guild and app of its own junction.
C36_SweepNeverRecreates ==
    [][/\ {x.id : x \in junction'} \subseteq {x.id : x \in junction}
       /\ \A f \in futs[1] :
              f.st = "update" /\ f \notin futs'[1]
                  /\ f.j.id \notin {x.id : x \in junction}
              => junction' = junction
       /\ \A f \in futs[1] :
              f.st = "remove" /\ f \notin futs'[1] =>
                  /\ junction' \subseteq junction
                  /\ Cardinality(junction \ junction') <= 1
                  /\ \A x \in junction \ junction' :
                         /\ x.server_id = f.j.server_id
                         /\ x.app_id = f.j.app_id]_vars

\* C36 witness: an evaluation went through its update_junction and ended
\* well for an app that stays tracked, and its junction, removed by the
\* guild meanwhile, is not in the collection.
C36_Witness ==
    \E f \in futs[1] :
        /\ f.st = "end" /\ f.out = "ok"
        /\ ~IsFreeAndReleased(App(1))
        /\ f.j.id \notin {x.id : x \in junction}

\* C38: no add path creates a junction for an app that is free and not
\* coming soon when it is added: fetch_apps of /add_apps and get_app of
\* /search turn such an app down without a write, so every app that goes
\* on to a transaction, and every junction a transaction inserts, is of
\* an app that was priced or coming soon when fetched.
C38_NoLinkForFreeReleased ==
    /\ [](/\ sess[1].op = "add_apps" =>
                \A app \in sess[1].apps \cup sess[1].added_apps :
                    ~(app.is_free /\ ~app.coming_soon)
          /\ sess[1].op = "add" =>
                ~(sess[1].app.is_free /\ ~sess[1].app.coming_soon)
          /\ done.op = "search" /\ Found(done.answer) =>
                done.answer.val[1].is_free
                    /\ ~done.answer.val[1].coming_soon)
    /\ [][/\ \A x \in junction' :
                 x.id \notin {y.id : y \in junction} =>
                     \/ /\ sess[1].op = "add_apps"
                        /\ \E app \in sess[1].apps :
                               /\ app.app_id = x.app_id
                               /\ app.coming_soon = x.coming_soon
                     \/ /\ sess[1].op = "add"
                        /\ sess[1].app.app_id = x.app_id
                        /\ sess[1].app.coming_soon = x.coming_soon
          /\ done'.op = "search" =>
                 /\ junction' = junction /\ apps' = apps
                 /\ sess' = sess
          /\ sess[1].op = "add_apps" /\ sess[1].st = "fetch" =>
                 junction' = junction /\ apps' = apps]_vars

\* C38 witness: every id of an /add_apps was answered with an app, none
\* was kept, and the command goes on to its reply with the junction
\* collection, which already holds a junction, as it found it.
C38_Witness ==
    /\ sess[1].op = "add_apps" /\ sess[1].st = "db"
    /\ sess[1].fetches = {} /\ sess[1].no_app = {}
    /\ sess[1].apps = {} /\ sess[1].added_apps = {}
    /\ sess[1].aborted = {}
    /\ junction = sess[1].pre
    /\ junction # {}

\* C39: /add_apps reports every requested id in exactly one of its two
\* lists; an id is reported as added only if the transaction with its
\* junction insert and apps upsert committed; an id whose fetch brought no
\* app (an error, a rate limit, not found, or not fetched after a rate
\* limit) or whose transaction failed is reported as failed and has no
\* junction it did not have before.
C39_AddAppsReport ==
    done.op = "add_apps" =>
        /\ \A a \in done.app_ids :
               (a \in done.added_apps) # (a \in done.failed_apps)
        /\ \A a \in done.added_apps :
               /\ LinksOf(junction, a, done.g) # {}
               /\ a \in apps
        /\ \A a \in done.no_app \cup (done.aborted \cap done.app_ids) :
               /\ a \in done.failed_apps
               /\ LinksOf(junction, a, done.g) = LinksOf(done.pre, a, done.g)

====
